---- MODULE Spec2Model ----
(***************************************************************************)
(* FastGPT client (fastgptClient.ts): configuration validation, the retry  *)
(* executor, HTTP error classification, the SSE stream decoders and the    *)
(* event-emitting streaming wrapper, as one state machine per public call. *)
(*                                                                         *)
(* Text is modelled as a sequence of tokens.  An error message is a        *)
(* sequence of words, and String.includes is a contiguous sub-sequence     *)
(* test on words (case is kept: "Network" and "network" differ).  The wire *)
(* of a streamed response is a sequence of symbols; "LF" is the newline.   *)
(***************************************************************************)
EXTENDS Integers, Sequences, FiniteSets, TLC

VARIABLES
    op,          \* the public operation that was called
    config,      \* this.config
    options,     \* the options argument of the event-emitting operations
    pc,          \* position of the call
    attempt,     \* executeWithRetry: loop variable
    lastError,   \* executeWithRetry: lastError
    ctrl,        \* AbortController of the current attempt: "none", "live", "aborted"
    timerArmed,  \* the attempt's setTimeout is pending
    extAborted,  \* options.abortSignal.aborted
    rest,        \* symbols of the response body the transport has not delivered yet
    buffer,      \* decoder: buffer
    carry,       \* decoder: bytes of an incomplete character held by the TextDecoder
    lines,       \* decoder: lines of the current read not processed yet
    chunkCount,  \* event wrapper: chunkCount
    events,      \* events the consumer has received, in order
    deltas,      \* strings yielded to the consumer by the plain streaming operations
    outcome,     \* how the call ended: "pending", "returned", "threw"
    result,      \* value returned or error thrown to the caller
    readerAcq,   \* number of body.getReader() calls
    readerRel,   \* number of reader.releaseLock() calls
    fetchCalls,  \* history: number of fetch() calls started
    sleeps,      \* history: number of backoff sleeps started
    hist,        \* history: observations about the run, read by the properties only
    unit,        \* a helper method exercised on its own: its name, arguments and value
    storage,     \* chrome.storage.local: the keys setupState and fastgptConfig
    manager,     \* ExtensionStateManager: currentState, and the listener notifications
    calls,       \* the calls made on the storage and state managers, one per caller
    exchanges,   \* streaming exchanges run side by side on the one client, each with its locals
    chatSessions, \* chrome.storage.local: the key chatSessions, session id -> stored session
    sessionCalls, \* the setChatSession calls under way, one per caller
    chatComponent \* ChatComponent: its fields, and the handleSendMessage invocations

vars == <<op, config, options, pc, attempt, lastError, ctrl, timerArmed, extAborted,
          rest, buffer, carry, lines, chunkCount, events, deltas, outcome, result,
          readerAcq, readerRel, fetchCalls, sleeps, hist, unit, storage, manager, calls,
          exchanges, chatSessions, sessionCalls, chatComponent>>

\* the state around the call at hand: the extension, and the exchanges run side by side
chatVars == <<chatSessions, sessionCalls, chatComponent>>

extVars == <<storage, manager, calls, exchanges, chatVars>>

-----------------------------------------------------------------------------
(* Words and messages *)

\* String.prototype.includes at word granularity
Includes(msg, pat) ==
    \E i \in 1..(Len(msg) - Len(pat) + 1) : SubSeq(msg, i, i + Len(pat) - 1) = pat

\* an Error object: its class name, its message, and the attempt that created it
MkError(name, message, origin) == [name |-> name, message |-> message, origin |-> origin]

NoError == MkError("none", <<>>, -1)

-----------------------------------------------------------------------------
(* Retry policy: defaultRetryOptions *)

DefaultMaxRetries == 3

DefaultBaseDelay == 1000

DefaultMaxDelay == 10000

DefaultBackoffMultiplier == 2

\* this.defaultRetryOptions
defaultRetryOptions ==
    [maxRetries |-> DefaultMaxRetries, baseDelay |-> DefaultBaseDelay,
     maxDelay |-> DefaultMaxDelay, backoffMultiplier |-> DefaultBackoffMultiplier]

\* RetryOptions values executeWithRetry may be given; delays are in milliseconds
RetryPolicies ==
    [maxRetries : {2, DefaultMaxRetries},
     baseDelay : {DefaultBaseDelay, 2000},
     maxDelay : {1000, 3000, DefaultMaxDelay},
     backoffMultiplier : {1, DefaultBackoffMultiplier, 3}]

\* Math.pow on naturals
RECURSIVE Pow(_, _)
Pow(b, n) == IF n = 0 THEN 1 ELSE b * Pow(b, n - 1)

\* Math.min
Min(a, b) == IF a <= b THEN a ELSE b

-----------------------------------------------------------------------------
(* Config validation *)

\* what the URL constructor makes of a base URL: its protocol, or "invalid"
UrlProtocol(baseUrl) ==
    CASE baseUrl = "https://fastgpt.io" -> "https:"
      [] baseUrl = "http://localhost:3000/" -> "http:"
      [] baseUrl = "ftp://fastgpt.io" -> "ftp:"
      [] OTHER -> "invalid"

BaseUrls == {"", "https://fastgpt.io", "http://localhost:3000/", "ftp://fastgpt.io", "fastgpt"}

Configs == [baseUrl : BaseUrls, appId : {"", "app"}, apiKey : {"", "key"}]

\* mutant: the API key is checked before the app id
validateConfigKeyFirst(c) ==
    IF c.baseUrl = "" THEN <<"Base", "URL", "is", "required">>
    ELSE IF c.apiKey = "" THEN <<"API", "Key", "is", "required">>
    ELSE IF c.appId = "" THEN <<"App", "ID", "is", "required">>
    ELSE IF UrlProtocol(c.baseUrl) = "invalid" THEN <<"Invalid", "Base", "URL", "format">>
    ELSE IF UrlProtocol(c.baseUrl) \notin {"http:", "https:"}
         THEN <<"Base", "URL", "must", "use", "HTTP", "or", "HTTPS", "protocol">>
    ELSE <<>>

\* validateConfig: the message of the validation error, or <<>> for null
validateConfig(c) ==
    IF c.baseUrl = "" THEN <<"Base", "URL", "is", "required">>
    ELSE IF c.appId = "" THEN <<"App", "ID", "is", "required">>
    ELSE IF c.apiKey = "" THEN <<"API", "Key", "is", "required">>
    ELSE IF UrlProtocol(c.baseUrl) = "invalid" THEN <<"Invalid", "Base", "URL", "format">>
    ELSE IF UrlProtocol(c.baseUrl) \notin {"http:", "https:"}
         THEN <<"Base", "URL", "must", "use", "HTTP", "or", "HTTPS", "protocol">>
    ELSE <<>>

-----------------------------------------------------------------------------
(* HTTP error responses *)

Statuses == {400, 401, 403, 404, 408, 418, 429, 500, 501, 502, 503, 504}

\* the reason phrase of a status, as words
StatusText(s) ==
    CASE s = 400 -> <<"Bad", "Request">>
      [] s = 401 -> <<"Unauthorized">>
      [] s = 403 -> <<"Forbidden">>
      [] s = 404 -> <<"Not", "Found">>
      [] s = 408 -> <<"Request", "Timeout">>
      [] s = 418 -> <<"I'm", "a", "teapot">>
      [] s = 429 -> <<"Too", "Many", "Requests">>
      [] s = 500 -> <<"Internal", "Server", "Error">>
      [] s = 501 -> <<"Not", "Implemented">>
      [] s = 502 -> <<"Bad", "Gateway">>
      [] s = 503 -> <<"Service", "Unavailable">>
      [] OTHER -> <<"Gateway", "Timeout">>

\* message texts a server may put in the JSON body of an error response
ServerMessages == { <<>>, <<"Invalid", "request">>, <<"Server", "error">> }

\* the body of an error response: JSON carrying a message, or not JSON at all
ErrorBodies == [json : {TRUE}, message : ServerMessages]
                   \cup {[json |-> FALSE, message |-> <<>>]}

\* the Retry-After header of a response, in seconds; -1 when the header is absent
RetryAfters == {-1, 5}

ErrorResponses == [status : Statuses, body : ErrorBodies, retryAfter : RetryAfters]

\* `HTTP ${status}: ${statusText}`
HttpLine(s) == <<"HTTP", ToString(s), ":">> \o StatusText(s)

\* a FastGPTApiError; retryAfter -1 stands for undefined
ApiError(code, message, type, retryable, retryAfter) ==
    [code |-> code, message |-> message, type |-> type, retryable |-> retryable,
     retryAfter |-> retryAfter]

\* parseErrorResponse
parseErrorResponse(r) ==
    IF ~r.body.json
    THEN ApiError(r.status, HttpLine(r.status), "unknown", r.status >= 500, -1)
    ELSE CASE r.status = 401 ->
                ApiError(401, <<"Authentication", "failed", ":", "Invalid", "API", "key">>,
                         "authentication", FALSE, -1)
           [] r.status = 403 ->
                ApiError(403, <<"Access", "forbidden", ":", "Check", "your", "API", "key",
                                "permissions">>, "authentication", FALSE, -1)
           [] r.status = 404 ->
                ApiError(404, <<"API", "endpoint", "not", "found", ":", "Check", "your",
                                "Base", "URL">>, "validation", FALSE, -1)
           [] r.status = 400 ->
                ApiError(400, IF r.body.message # <<>> THEN r.body.message
                              ELSE <<"Bad", "request", ":", "Invalid", "configuration">>,
                         "validation", FALSE, -1)
           [] r.status = 429 ->
                ApiError(429, <<"Rate", "limit", "exceeded", ":", "Too", "many", "requests">>,
                         "server", TRUE, r.retryAfter)
           [] r.status \in {500, 502, 503, 504} ->
                ApiError(r.status, <<"Server", "error", ":", "FastGPT", "service", "is",
                                     "temporarily", "unavailable">>, "server", TRUE, r.retryAfter)
           [] r.status = 408 ->
                ApiError(408, <<"Request", "timeout", ":", "The", "server", "took", "too",
                                "long", "to", "respond">>, "server", TRUE, -1)
           [] OTHER ->
                ApiError(r.status, IF r.body.message # <<>> THEN r.body.message
                                   ELSE HttpLine(r.status),
                         "unknown", r.status >= 500, -1)

-----------------------------------------------------------------------------
(* Retry executor: classification of a thrown error *)

\* isRetryableError
isRetryableError(e) ==
    \/ e.name = "TypeError" /\ Includes(e.message, <<"fetch">>)
    \/ Includes(e.message, <<"Rate", "limit", "exceeded">>)
    \/ Includes(e.message, <<"Server", "error">>)
    \/ Includes(e.message, <<"Request", "timeout">>)
    \/ Includes(e.message, <<"Network", "error">>)

-----------------------------------------------------------------------------
(* Event wrapper: classification of a propagated error *)

StreamingError(type, message, recoverable) ==
    [type |-> type, message |-> message, recoverable |-> recoverable]

\* mutant: the timeout test comes before the abort test
classifyStreamingErrorTimeoutFirst(e) ==
    IF Includes(e.message, <<"timeout">>)
    THEN StreamingError("timeout", <<"Request", "timed", "out", "while", "streaming">>, TRUE)
    ELSE IF e.name = "AbortError" \/ Includes(e.message, <<"aborted">>)
    THEN StreamingError("abort", <<"Request", "was", "cancelled", "or", "timed", "out">>, TRUE)
    ELSE StreamingError("connection", e.message, TRUE)

\* classifyStreamingError
classifyStreamingError(e) ==
    IF e.name = "AbortError" \/ Includes(e.message, <<"aborted">>)
    THEN StreamingError("abort", <<"Request", "was", "cancelled", "or", "timed", "out">>, TRUE)
    ELSE IF Includes(e.message, <<"timeout">>)
    THEN StreamingError("timeout", <<"Request", "timed", "out", "while", "streaming">>, TRUE)
    ELSE IF \/ Includes(e.message, <<"network">>)
            \/ Includes(e.message, <<"fetch">>)
            \/ Includes(e.message, <<"connection", "lost">>)
    THEN StreamingError("connection",
                        <<"Network", "connection", "lost", "during", "streaming">>, TRUE)
    ELSE IF Includes(e.message, <<"parse">>) \/ Includes(e.message, <<"JSON">>)
    THEN StreamingError("parsing", <<"Failed", "to", "parse", "streaming", "response">>, FALSE)
    ELSE IF \/ Includes(e.message, <<"Authentication", "failed">>)
            \/ Includes(e.message, <<"Invalid", "API", "key">>)
            \/ Includes(e.message, <<"Access", "forbidden">>)
    THEN StreamingError("connection", e.message, FALSE)
    ELSE StreamingError("connection", e.message, TRUE)

-----------------------------------------------------------------------------
(* SSE wire text.  Symbols: "da" "ta" are the two halves of the prefix       *)
(* 'data: '; "{" c "}" is a JSON chunk whose choices[0].delta.content is c   *)
(* ("{" "}" has no content, "{" "E" "}" is an in-band API error object);     *)
(* "DONE" is '[DONE]'; "x" is text that is not JSON; "LF" "CR" "SP" are      *)
(* newline, carriage return and space; "u1" "u2" are the two bytes of one    *)
(* two-byte character "U"; "?" is U+FFFD.                                    *)

Contents == {"A", "B", "U"}

Whitespace == {"SP", "CR", "LF"}

\* mutant: every read is decoded on its own (decode without stream: true), so the
\* bytes of a character cut by a read boundary become U+FFFD
RECURSIVE DecodeAlone(_, _)
DecodeAlone(held, bytes) ==
    IF bytes = <<>> THEN [text |-> <<>>, carry |-> <<>>]
    ELSE LET b == Head(bytes)
             t == Tail(bytes)
         IN IF b = "u1" /\ t # <<>> /\ Head(t) = "u2"
            THEN [text |-> <<"U">> \o DecodeAlone(<<>>, Tail(t)).text, carry |-> <<>>]
            ELSE [text |-> <<IF b \in {"u1", "u2"} THEN "?" ELSE b>>
                               \o DecodeAlone(<<>>, t).text,
                  carry |-> <<>>]

\* TextDecoder.decode(value, {stream: true}): bytes to characters, the carry is
\* the incomplete character kept inside the decoder between calls
RECURSIVE DecodeFrom(_, _)
DecodeFrom(held, bytes) ==
    IF bytes = <<>> THEN [text |-> <<>>, carry |-> held]
    ELSE LET b == Head(bytes)
             t == Tail(bytes)
         IN IF held = <<"u1">>
            THEN IF b = "u2"
                 THEN LET r == DecodeFrom(<<>>, t)
                      IN [text |-> <<"U">> \o r.text, carry |-> r.carry]
                 ELSE LET r == DecodeFrom(<<>>, bytes)
                      IN [text |-> <<"?">> \o r.text, carry |-> r.carry]
            ELSE IF b = "u1" THEN DecodeFrom(<<"u1">>, t)
            ELSE LET r == DecodeFrom(<<>>, t)
                 IN [text |-> <<IF b = "u2" THEN "?" ELSE b>> \o r.text, carry |-> r.carry]

\* String.prototype.split("\n")
RECURSIVE SplitLF(_)
SplitLF(text) ==
    IF \A i \in 1..Len(text) : text[i] # "LF" THEN <<text>>
    ELSE LET k == CHOOSE i \in 1..Len(text) :
                      text[i] = "LF" /\ \A j \in 1..(i - 1) : text[j] # "LF"
         IN <<SubSeq(text, 1, k - 1)>> \o SplitLF(SubSeq(text, k + 1, Len(text)))

\* String.prototype.trim
RECURSIVE Trim(_)
Trim(text) ==
    IF text = <<>> THEN <<>>
    ELSE IF Head(text) \in Whitespace THEN Trim(Tail(text))
    ELSE IF text[Len(text)] \in Whitespace THEN Trim(SubSeq(text, 1, Len(text) - 1))
    ELSE text

\* trimmedLine.startsWith("data: ")
StartsWithData(line) == Len(line) >= 2 /\ line[1] = "da" /\ line[2] = "ta"

DoneLine == <<"da", "ta", "DONE">>

\* JSON.parse of a payload: what kind of document it is, "invalid" when it throws
ParseJson(payload) ==
    LET p == Trim(payload)
    IN IF Len(p) = 3 /\ p[1] = "{" /\ p[3] = "}" /\ p[2] \in Contents
       THEN [kind |-> "chunk", content |-> p[2]]
       ELSE IF p = <<"{", "}">> THEN [kind |-> "chunk", content |-> ""]
       ELSE IF p = <<"{", "E", "}">> THEN [kind |-> "apiError", content |-> ""]
       ELSE [kind |-> "invalid", content |-> ""]

\* processEnhancedStreamResponse, one line of the loop: the content it yields,
\* as a sequence of zero or one element
EnhancedLine(line) ==
    LET t == Trim(line)
    IN IF t = <<>> \/ t = DoneLine THEN <<>>
       ELSE IF StartsWithData(t)
       THEN LET d == ParseJson(SubSeq(t, 3, Len(t)))
            IN IF d.kind = "chunk" /\ d.content # "" THEN <<d.content>> ELSE <<>>
       ELSE <<>>

\* mutant: the left-over buffer is dropped at the end of the stream
EnhancedFinalDropped(buf) == <<>>

\* processEnhancedStreamResponse, the block after the loop, on the left-over buffer
EnhancedFinal(buf) ==
    LET t == Trim(buf)
    IN IF t # <<>> /\ StartsWithData(t) /\ t # DoneLine
       THEN LET d == ParseJson(SubSeq(t, 3, Len(t)))
            IN IF d.kind = "chunk" /\ d.content # "" THEN <<d.content>> ELSE <<>>
       ELSE <<>>

\* processStreamResponse, one line of the loop: "skip", "yield" or "throw"
PlainLine(line) ==
    LET t == Trim(line)
    IN IF t = <<>> \/ t = DoneLine THEN [act |-> "skip", content |-> ""]
       ELSE IF StartsWithData(t)
       THEN LET d == ParseJson(SubSeq(t, 3, Len(t)))
            IN IF d.kind = "apiError" THEN [act |-> "throw", content |-> ""]
               ELSE IF d.kind = "chunk" /\ d.content # ""
               THEN [act |-> "yield", content |-> d.content]
               ELSE [act |-> "skip", content |-> ""]
       ELSE [act |-> "skip", content |-> ""]

\* index of the first line of ls for which the enhanced decoder yields, 0 if none
FirstYield(ls) ==
    IF \E i \in 1..Len(ls) : EnhancedLine(ls[i]) # <<>>
    THEN CHOOSE i \in 1..Len(ls) :
             EnhancedLine(ls[i]) # <<>> /\ \A j \in 1..(i - 1) : EnhancedLine(ls[j]) = <<>>
    ELSE 0

\* index of the first line of ls at which the plain decoder yields or throws, 0 if none
FirstPlainStop(ls) ==
    IF \E i \in 1..Len(ls) : PlainLine(ls[i]).act # "skip"
    THEN CHOOSE i \in 1..Len(ls) :
             PlainLine(ls[i]).act # "skip" /\ \A j \in 1..(i - 1) : PlainLine(ls[j]).act = "skip"
    ELSE 0

\* the largest number of bytes one read delivers
MaxReadLen == 15

ReadLens(body) == 1..(IF Len(body) < MaxReadLen THEN Len(body) ELSE MaxReadLen)

\* response bodies the server may send
Frame(c) == <<"da", "ta", "{", c, "}", "LF", "LF">>

DoneFrame == <<"da", "ta", "DONE", "LF", "LF">>

Bodies ==
    { Frame("A") \o Frame("B") \o DoneFrame,
      Frame("A") \o <<"da", "ta", "x", "LF", "LF">> \o Frame("B"),
      Frame("A") \o <<"da", "ta", "{", "B", "}">>,
      <<"da", "ta", "{", "}", "LF">> \o Frame("A") \o DoneFrame,
      Frame("A") \o <<"da", "ta", "{", "E", "}", "LF">> \o Frame("B"),
      Frame("A") \o <<"da", "ta", "{", "u1", "u2", "}", "LF", "LF">>,
      <<"da", "ta", "DONE">>,
      <<"da", "ta", "x">>,
      <<>> }

-----------------------------------------------------------------------------
(* The call *)

EventOps == {"sendMessageStreamWithEvents", "sendMessageWithHistoryStreamWithEvents"}

PlainStreamOps == {"sendMessageStream", "sendMessageWithHistoryStream"}

UnaryOps == {"sendMessage", "sendMessageWithHistory"}

Ops == EventOps \cup PlainStreamOps \cup UnaryOps \cup {"testConnection"}

NoOptions == [timeout |-> FALSE, signal |-> FALSE]

\* a StreamingEvent; -1, "" and <<>> stand for fields that are absent
Event(type, data, errType, message, recoverable, currentChunk, totalChunks) ==
    [type |-> type, data |-> data, errType |-> errType, message |-> message,
     recoverable |-> recoverable, currentChunk |-> currentChunk, totalChunks |-> totalChunks]

StartEvent == Event("start", "", "", <<>>, FALSE, 0, 0)

\* the counter after chunkCount++, carried by the chunk event as currentChunk
NextChunkCount(count) == count + 1

\* mutant: the chunk event carries the counter before the increment
ChunkEventZeroBased(data, count) == Event("chunk", data, "", <<>>, FALSE, count - 1, -1)

ChunkEvent(data, count) == Event("chunk", data, "", <<>>, FALSE, count, -1)

CompleteEvent(count) == Event("complete", "", "", <<>>, FALSE, count, count)

\* mutant: the validation error event is marked recoverable
ValidationErrorRecoverable(message) == Event("error", "", "connection", message, TRUE, -1, -1)

ValidationErrorEvent(message) == Event("error", "", "connection", message, FALSE, -1, -1)

ErrorEvent(se, count) == Event("error", "", se.type, se.message, se.recoverable, count, -1)

\* what the caller gets back
Result(kind, success, message, details, error) ==
    [kind |-> kind, success |-> success, message |-> message, details |-> details,
     error |-> error]

NoResult == Result("none", FALSE, <<>>, <<>>, NoError)

Thrown(e) == Result("error", FALSE, <<>>, <<>>, e)

Content(c) == Result("content", TRUE, c, <<>>, NoError)

\* testConnection's ConnectionTestResult for a failed makeTestRequest
TestFailure(message, type) ==
    Result("test", FALSE,
           IF message # <<>> THEN message ELSE <<"Connection", "test", "failed">>,
           <<type>>, NoError)

TestSuccess == Result("test", TRUE, <<>>, <<"Connection", "test", "successful">>, NoError)

\* makeTestRequest's catch: the error object it returns for a thrown error
TestCatchMessage(e) ==
    IF e.name = "TypeError" /\ Includes(e.message, <<"fetch">>)
    THEN <<"Network", "error", ":", "Unable", "to", "connect", "to", "FastGPT", "server">>
    ELSE e.message

NoHist ==
    [ sameStatus |-> 0,          \* the HTTP status every attempt got: 0 none yet, -1 mixed
      retryableOnly |-> TRUE,    \* every failed attempt was a network failure, 429 or 5xx
      timerFired |-> FALSE,      \* a timeout timer has elapsed
      attemptError |-> NoError,  \* the error the latest attempt threw
      retryThrew |-> NoError,    \* the error executeWithRetry threw to its caller
      firedAt |-> "",            \* where the call was when the token or a timer first fired
      lateFetch |-> FALSE,       \* a fetch was started after that, the call being under way
      lateChunk |-> FALSE,       \* a chunk event was emitted after the controller was aborted
      splitChar |-> FALSE,       \* a read ended between the bytes of one character
      body |-> <<>> ]            \* the body of the response whose stream was opened

\* no helper method is being exercised on its own
NoUnit == [fn |-> "none", arg |-> <<>>, out |-> <<>>, applied |-> FALSE]

\* the value of the key setupState; stored is FALSE when the key is absent
SetupState(stored, onboardingComplete, configurationComplete) ==
    [stored |-> stored, onboardingComplete |-> onboardingComplete,
     configurationComplete |-> configurationComplete]

NoSetupState == SetupState(FALSE, FALSE, FALSE)

\* chrome.storage.local after installation
EmptyStorage == [setupState |-> NoSetupState, fastgptConfig |-> FALSE]

\* an ExtensionState; loaded is FALSE for null
ExtensionState(loaded, setupComplete, configurationComplete, currentView, fastgptConfig) ==
    [loaded |-> loaded, setupComplete |-> setupComplete,
     configurationComplete |-> configurationComplete, currentView |-> currentView,
     fastgptConfig |-> fastgptConfig]

NoState == ExtensionState(FALSE, FALSE, FALSE, "onboarding", FALSE)

\* new ExtensionStateManager(): currentState = null, no listener notified yet
NewManager == [currentState |-> NoState, notified |-> 0]

\* the extension around the client is not in use
\* no chat has taken place
NoChat ==
    /\ chatSessions = <<>>
    /\ sessionCalls = <<>>
    /\ chatComponent = <<>>

NoExtension ==
    /\ storage = EmptyStorage
    /\ manager = NewManager
    /\ calls = <<>>
    /\ exchanges = <<>>
    /\ NoChat

\* no call has been made yet
Quiescent ==
    /\ pc = "idle"
    /\ attempt = 0
    /\ lastError = NoError
    /\ ctrl = "none"
    /\ timerArmed = FALSE
    /\ extAborted = FALSE
    /\ rest = <<>>
    /\ buffer = <<>>
    /\ carry = <<>>
    /\ lines = <<>>
    /\ chunkCount = 0
    /\ events = <<>>
    /\ deltas = <<>>
    /\ outcome = "pending"
    /\ result = NoResult
    /\ readerAcq = 0
    /\ readerRel = 0
    /\ fetchCalls = 0
    /\ sleeps = 0
    /\ hist = NoHist

Init ==
    /\ op \in Ops
    /\ config \in Configs
    /\ options \in IF op \in EventOps THEN [timeout : BOOLEAN, signal : BOOLEAN]
                   ELSE {NoOptions}
    /\ Quiescent
    /\ unit = NoUnit
    /\ NoExtension

\* mutant: the finally block does not release the reader
releaseLockSkipped(released) == released

\* "finally { reader.releaseLock() }": the number of releases after it
releaseLock(released) == released + 1

decoderVars == <<rest, buffer, carry, lines, readerAcq, readerRel, deltas>>

\* the suspension points of a call that has started an attempt
StreamPcs == {"awaitRead", "yielded", "yieldedFinal"}

UnderWay == {"awaitHeaders", "sleep"} \cup StreamPcs

\* createEnhancedStreamGenerator / createStreamGenerator / the operation passed to
\* executeWithRetry, up to its fetch call: a new controller, the timer, the listener
BeginAttempt(att) ==
    /\ attempt' = att
    /\ ctrl' = IF op \in EventOps THEN "live" ELSE "none"
    /\ timerArmed' = (op \in EventOps /\ options.timeout)
    /\ fetchCalls' = fetchCalls + 1
    /\ hist' = [hist EXCEPT !.lateFetch = @ \/ hist.firedAt \in UnderWay]
    /\ pc' = "awaitHeaders"

\* mutant: the loop recognises its last attempt one attempt late
LastAttemptOffByOne(att) == att = DefaultMaxRetries + 1

\* executeWithRetry: "if (attempt === options.maxRetries) break"
LastAttempt(att) == att = DefaultMaxRetries

\* mutant: the loop ends by throwing a new error in place of lastError
ThrownWrapped(last) == MkError("Error", <<"Max", "retries", "exceeded">>, last.origin)

\* executeWithRetry: what it throws after the loop, given lastError
ThrownAfterLoop(last) == last

\* mutant: the event wrapper swallows the error and ends without an event
RetryThrowsSilently(e, h) ==
    /\ pc' = "done"
    /\ hist' = [h EXCEPT !.retryThrew = e]
    /\ chunkCount' = chunkCount
    /\ events' = events
    /\ outcome' = IF op \in EventOps \/ op = "testConnection" THEN "returned" ELSE "threw"
    /\ result' = IF op \in EventOps THEN NoResult
                 ELSE IF op = "testConnection"
                 THEN TestFailure(TestCatchMessage(e), "network")
                 ELSE Thrown(e)

\* executeWithRetry throws e: what the public operation makes of it
RetryThrows(e, h) ==
    /\ pc' = "done"
    /\ hist' = [h EXCEPT !.retryThrew = e]
    /\ chunkCount' = chunkCount
    /\ IF op \in EventOps
       THEN /\ events' = Append(events, ErrorEvent(classifyStreamingError(e), chunkCount))
            /\ outcome' = "returned"
            /\ result' = NoResult
       ELSE IF op = "testConnection"
       THEN /\ events' = events
            /\ outcome' = "returned"
            /\ result' = TestFailure(TestCatchMessage(e), "network")
       ELSE /\ events' = events
            /\ outcome' = "threw"
            /\ result' = Thrown(e)

\* the operation of the current attempt throws e: executeWithRetry's catch block
AttemptThrows(e, h) ==
    /\ lastError' = e
    /\ ctrl' = "none"
    /\ timerArmed' = FALSE
    /\ UNCHANGED <<extVars, unit, op, config, options, attempt, extAborted, decoderVars, fetchCalls>>
    /\ LET h1 == [h EXCEPT !.attemptError = e]
       IN IF LastAttempt(attempt)
          THEN RetryThrows(ThrownAfterLoop(e), h1) /\ sleeps' = sleeps
          ELSE IF ~isRetryableError(e)
          THEN RetryThrows(e, h1) /\ sleeps' = sleeps
          ELSE /\ pc' = "sleep"
               /\ sleeps' = sleeps + 1
               /\ hist' = h1
               /\ UNCHANGED <<events, chunkCount, outcome, result>>

\* the first call of the operation (for a generator: the first next()):
\* validateConfig, then the start event or the first attempt
Call ==
    /\ pc = "idle"
    /\ UNCHANGED <<extVars, unit, op, config, options, lastError, extAborted, decoderVars, sleeps, chunkCount>>
    /\ LET v == validateConfig(config)
       IN IF v # <<>>
          THEN /\ pc' = "done"
               /\ UNCHANGED <<attempt, ctrl, timerArmed, fetchCalls, hist>>
               /\ IF op \in EventOps
                  THEN /\ events' = <<ValidationErrorEvent(v)>>
                       /\ outcome' = "returned"
                       /\ result' = NoResult
                  ELSE IF op = "testConnection"
                  THEN /\ events' = events
                       /\ outcome' = "returned"
                       /\ result' = Result("test", FALSE, v,
                                           <<"Configuration", "validation", "failed">>, NoError)
                  ELSE /\ events' = events
                       /\ outcome' = "threw"
                       /\ result' = Thrown(MkError("Error", v, -1))
          ELSE IF op \in EventOps
          THEN /\ events' = <<StartEvent>>
               /\ pc' = "started"
               /\ UNCHANGED <<attempt, ctrl, timerArmed, fetchCalls, hist, outcome, result>>
          ELSE /\ BeginAttempt(0)
               /\ UNCHANGED <<events, outcome, result>>

\* the consumer asks for the event after start: executeWithRetry begins
ResumeAfterStart ==
    /\ pc = "started"
    /\ BeginAttempt(0)
    /\ UNCHANGED <<extVars, unit, op, config, options, lastError, extAborted, decoderVars, sleeps,
                   chunkCount, events, outcome, result>>

\* the backoff sleep ends: the loop goes on with the next attempt
WakeAndRetry ==
    /\ pc = "sleep"
    /\ BeginAttempt(attempt + 1)
    /\ UNCHANGED <<extVars, unit, op, config, options, lastError, extAborted, decoderVars, sleeps,
                   chunkCount, events, outcome, result>>

\* options.abortSignal fires: the listeners registered so far run
Cancel ==
    /\ op \in EventOps
    /\ options.signal
    /\ pc \notin {"idle", "done", "closed"}
    /\ ~extAborted
    /\ extAborted' = TRUE
    /\ ctrl' = IF ctrl = "live" THEN "aborted" ELSE ctrl
    /\ hist' = [hist EXCEPT !.firedAt = IF @ = "" THEN pc ELSE @]
    /\ UNCHANGED <<extVars, unit, op, config, options, pc, attempt, lastError, timerArmed, decoderVars,
                   chunkCount, events, outcome, result, fetchCalls, sleeps>>

\* the attempt's timeout timer elapses
TimeoutFire ==
    /\ timerArmed
    /\ timerArmed' = FALSE
    /\ ctrl' = "aborted"
    /\ hist' = [hist EXCEPT !.timerFired = TRUE, !.firedAt = IF @ = "" THEN pc ELSE @]
    /\ UNCHANGED <<extVars, unit, op, config, options, pc, attempt, lastError, extAborted, decoderVars,
                   chunkCount, events, outcome, result, fetchCalls, sleeps>>

\* history: the status every attempt so far received
SeenStatus(h, s) == IF h.sameStatus \in {0, s} THEN s ELSE -1

\* createEnhancedStreamGenerator's catch block: the error it throws on
FetchCatch(e) ==
    IF op \in EventOps /\ e.name = "AbortError"
    THEN MkError("Error", <<"Request", "was", "aborted">>, e.origin)
    ELSE e

\* fetch rejects: the transport failed
FetchNetworkError ==
    /\ pc = "awaitHeaders"
    /\ ctrl # "aborted"
    /\ AttemptThrows(FetchCatch(MkError("TypeError", <<"Failed", "to", "fetch">>, attempt)),
                     [hist EXCEPT !.sameStatus = -1])

\* fetch rejects with an AbortError: the attempt's controller was aborted
FetchAbort ==
    /\ pc = "awaitHeaders"
    /\ ctrl = "aborted"
    /\ AttemptThrows(FetchCatch(MkError("AbortError", <<"The", "user", "aborted", "a",
                                                        "request">>, attempt)),
                     [hist EXCEPT !.sameStatus = -1, !.retryableOnly = FALSE])

\* history: is the response a failure the spec calls retryable (429 or 5xx)
RetryableStatus(s) == s = 429 \/ s >= 500

\* fetch resolves with a response that is not ok
FetchErrorResponse ==
    /\ pc = "awaitHeaders"
    /\ ctrl # "aborted"
    /\ \E r \in ErrorResponses :
          LET err == parseErrorResponse(r)
              h == [hist EXCEPT !.sameStatus = SeenStatus(hist, r.status),
                                !.retryableOnly = @ /\ RetryableStatus(r.status)]
          IN IF op = "testConnection" /\ ~err.retryable
             THEN \* makeTestRequest returns {success: false, error: errorData}
                  /\ pc' = "done"
                  /\ outcome' = "returned"
                  /\ result' = TestFailure(err.message, err.type)
                  /\ hist' = h
                  /\ UNCHANGED <<extVars, unit, op, config, options, attempt, lastError, ctrl, timerArmed,
                                 extAborted, decoderVars, chunkCount, events, fetchCalls,
                                 sleeps>>
             ELSE AttemptThrows(MkError("Error", err.message, attempt), h)

\* the body of an ok response to a non-streaming request
OkBodies == {"completion", "noChoices", "notJson"}

\* fetch resolves with an ok response, non-streaming operations
FetchOkUnary ==
    /\ pc = "awaitHeaders"
    /\ op \in UnaryOps \cup {"testConnection"}
    /\ \E b \in OkBodies :
          LET h == [hist EXCEPT !.sameStatus = SeenStatus(hist, 200)]
          IN IF op = "testConnection" \/ b = "completion"
             THEN /\ pc' = "done"
                  /\ outcome' = "returned"
                  /\ result' = IF op = "testConnection" THEN TestSuccess
                               ELSE Content(<<"completion">>)
                  /\ hist' = h
                  /\ UNCHANGED <<extVars, unit, op, config, options, attempt, lastError, ctrl, timerArmed,
                                 extAborted, decoderVars, chunkCount, events, fetchCalls,
                                 sleeps>>
             ELSE IF b = "noChoices"
             THEN AttemptThrows(MkError("Error", <<"Invalid", "response", "format", "from",
                                                   "FastGPT", "API">>, attempt),
                                [h EXCEPT !.retryableOnly = FALSE])
             ELSE AttemptThrows(MkError("SyntaxError", <<"Unexpected", "token">>, attempt),
                                [h EXCEPT !.retryableOnly = FALSE])

\* fetch resolves with an ok response that has no body, streaming operations
FetchOkNoBody ==
    /\ pc = "awaitHeaders"
    /\ op \in EventOps \cup PlainStreamOps
    /\ ctrl # "aborted"
    /\ AttemptThrows(MkError("Error", <<"No", "response", "body", "received">>, attempt),
                     [hist EXCEPT !.sameStatus = SeenStatus(hist, 200),
                                  !.retryableOnly = FALSE])

\* fetch resolves with an ok response that has a body: executeWithRetry returns the
\* decoder generator (its locals attempt and lastError are gone), whose first step
\* acquires the reader and starts the first read
FetchOkStream ==
    /\ pc = "awaitHeaders"
    /\ op \in EventOps \cup PlainStreamOps
    /\ ctrl # "aborted"
    /\ \E b \in Bodies :
          /\ rest' = b
          /\ hist' = [hist EXCEPT !.sameStatus = SeenStatus(hist, 200),
                                  !.attemptError = NoError, !.body = b]
    /\ readerAcq' = readerAcq + 1
    /\ timerArmed' = FALSE
    /\ pc' = "awaitRead"
    /\ attempt' = 0
    /\ lastError' = NoError
    /\ UNCHANGED <<extVars, unit, op, config, options, ctrl, extAborted, buffer, carry, lines, readerRel,
                   deltas, chunkCount, events, outcome, result, fetchCalls, sleeps>>

-----------------------------------------------------------------------------
(* Event-emitting operations: processEnhancedStreamResponse under the wrapper *)

\* processEnhancedStreamResponse's catch block: the error it throws on
EnhancedCatch(e) ==
    IF e.name = "AbortError" THEN MkError("Error", <<"Stream", "was", "aborted">>, e.origin)
    ELSE IF Includes(e.message, <<"network">>)
    THEN MkError("Error", <<"Network", "connection", "lost", "during", "streaming">>, e.origin)
    ELSE e

\* the "Check for abort signal" test at the top of the read loop
AbortSeen(c) == c = "aborted"

\* the decoder throws e inside its try: catch, finally, then the wrapper's catch
\* emits the error event
EnhancedThrows(e) ==
    /\ readerRel' = releaseLock(readerRel)
    /\ events' = Append(events,
                        ErrorEvent(classifyStreamingError(EnhancedCatch(e)), chunkCount))
    /\ pc' = "done"
    /\ outcome' = "returned"
    /\ lines' = <<>>
    /\ UNCHANGED <<chunkCount, result>>

\* the decoder returns: finally, then the wrapper emits complete
EnhancedCompletes ==
    /\ readerRel' = releaseLock(readerRel)
    /\ events' = Append(events, CompleteEvent(chunkCount))
    /\ pc' = "done"
    /\ outcome' = "returned"
    /\ lines' = <<>>
    /\ UNCHANGED <<chunkCount, result>>

\* the wrapper's "chunkCount++; yield chunk"
EmitChunk(data) ==
    /\ chunkCount' = NextChunkCount(chunkCount)
    /\ events' = Append(events, ChunkEvent(data, NextChunkCount(chunkCount)))
    /\ UNCHANGED <<outcome, result, readerRel>>

\* the for loop over the lines ls of the current read, up to its next yield; when
\* the lines are used up, the top of the while loop: the abort check, then a read
EnhancedLines(ls) ==
    LET i == FirstYield(ls)
    IN IF i > 0
       THEN /\ EmitChunk(EnhancedLine(ls[i])[1])
            /\ lines' = SubSeq(ls, i + 1, Len(ls))
            /\ pc' = "yielded"
       ELSE IF AbortSeen(ctrl)
       THEN EnhancedThrows(MkError("Error", <<"Stream", "was", "aborted">>, attempt))
       ELSE /\ lines' = <<>>
            /\ pc' = "awaitRead"
            /\ UNCHANGED <<chunkCount, events, outcome, result, readerRel>>

\* history: a chunk event is emitted although the controller is aborted
NoteChunk == hist' = [hist EXCEPT !.lateChunk = @ \/ (ctrl = "aborted" /\ chunkCount' # chunkCount)]

\* history: the same, and the read left the first byte of a character in the decoder
NoteRead ==
    hist' = [hist EXCEPT !.lateChunk = @ \/ (ctrl = "aborted" /\ chunkCount' # chunkCount),
                         !.splitChar = @ \/ carry' # <<>>]

\* reader.read() resolves with the next n bytes of the body
ReadChunk ==
    /\ pc = "awaitRead"
    /\ op \in EventOps
    /\ ctrl # "aborted"
    /\ rest # <<>>
    /\ \E n \in ReadLens(rest) :
          LET d == DecodeFrom(carry, SubSeq(rest, 1, n))
              ls == SplitLF(buffer \o d.text)
          IN /\ rest' = SubSeq(rest, n + 1, Len(rest))
             /\ carry' = d.carry
             /\ buffer' = ls[Len(ls)]
             /\ EnhancedLines(SubSeq(ls, 1, Len(ls) - 1))
    /\ NoteRead
    /\ UNCHANGED <<extVars, unit, op, config, options, attempt, lastError, ctrl, timerArmed, extAborted,
                   readerAcq, deltas, fetchCalls, sleeps>>

\* the consumer asks for the event after a chunk: the for loop goes on
ResumeAfterChunk ==
    /\ pc = "yielded"
    /\ op \in EventOps
    /\ EnhancedLines(lines)
    /\ NoteChunk
    /\ UNCHANGED <<extVars, unit, op, config, options, attempt, lastError, ctrl, timerArmed, extAborted,
                   rest, buffer, carry, readerAcq, deltas, fetchCalls, sleeps>>

\* reader.read() resolves with done: the left-over buffer, then the end
ReadDone ==
    /\ pc = "awaitRead"
    /\ op \in EventOps
    /\ ctrl # "aborted"
    /\ rest = <<>>
    /\ LET f == EnhancedFinal(buffer)
       IN IF f # <<>>
          THEN /\ EmitChunk(f[1])
               /\ pc' = "yieldedFinal"
               /\ lines' = <<>>
          ELSE EnhancedCompletes
    /\ NoteChunk
    /\ UNCHANGED <<extVars, unit, op, config, options, attempt, lastError, ctrl, timerArmed, extAborted,
                   rest, buffer, carry, readerAcq, deltas, fetchCalls, sleeps>>

\* the consumer asks for the event after the chunk of the left-over buffer
ResumeAfterFinal ==
    /\ pc = "yieldedFinal"
    /\ op \in EventOps
    /\ EnhancedCompletes
    /\ UNCHANGED <<extVars, unit, op, config, options, attempt, lastError, ctrl, timerArmed, extAborted,
                   rest, buffer, carry, readerAcq, deltas, fetchCalls, sleeps, hist>>

\* mutant: a rejected read is handed to the retry loop, which starts a new attempt
ReadErrorRetried ==
    /\ pc = "awaitRead"
    /\ op \in EventOps
    /\ ctrl # "aborted"
    /\ BeginAttempt(attempt + 1)
    /\ UNCHANGED <<extVars, unit, op, config, options, lastError, extAborted, decoderVars, sleeps,
                   chunkCount, events, outcome, result>>

\* reader.read() rejects: the connection failed while the body was being received
ReadError ==
    /\ pc = "awaitRead"
    /\ op \in EventOps
    /\ ctrl # "aborted"
    /\ EnhancedThrows(MkError("TypeError", <<"network", "error">>, attempt))
    /\ UNCHANGED <<extVars, unit, op, config, options, attempt, lastError, ctrl, timerArmed, extAborted,
                   rest, buffer, carry, readerAcq, deltas, fetchCalls, sleeps, hist>>

\* reader.read() rejects with an AbortError: the controller was aborted
ReadAbort ==
    /\ pc = "awaitRead"
    /\ op \in EventOps
    /\ ctrl = "aborted"
    /\ EnhancedThrows(MkError("AbortError", <<"The", "user", "aborted", "a", "request">>,
                              attempt))
    /\ UNCHANGED <<extVars, unit, op, config, options, attempt, lastError, ctrl, timerArmed, extAborted,
                   rest, buffer, carry, readerAcq, deltas, fetchCalls, sleeps, hist>>

-----------------------------------------------------------------------------
(* Plain streaming operations: processStreamResponse under yield* *)

\* the for loop over the lines ls of the current read, up to its next yield or throw
PlainLines(ls) ==
    LET i == FirstPlainStop(ls)
    IN IF i = 0
       THEN /\ lines' = <<>>
            /\ pc' = "awaitRead"
            /\ UNCHANGED <<deltas, outcome, result, readerRel>>
       ELSE IF PlainLine(ls[i]).act = "yield"
       THEN /\ deltas' = Append(deltas, PlainLine(ls[i]).content)
            /\ lines' = SubSeq(ls, i + 1, Len(ls))
            /\ pc' = "yielded"
            /\ UNCHANGED <<outcome, result, readerRel>>
       ELSE /\ readerRel' = releaseLock(readerRel)
            /\ lines' = <<>>
            /\ pc' = "done"
            /\ outcome' = "threw"
            /\ result' = Thrown(MkError("Error", <<"FastGPT", "API", "error">>, attempt))
            /\ UNCHANGED deltas

\* reader.read() resolves with the next n bytes of the body
PlainReadChunk ==
    /\ pc = "awaitRead"
    /\ op \in PlainStreamOps
    /\ rest # <<>>
    /\ \E n \in ReadLens(rest) :
          LET d == DecodeFrom(carry, SubSeq(rest, 1, n))
          IN /\ rest' = SubSeq(rest, n + 1, Len(rest))
             /\ carry' = d.carry
             /\ PlainLines(SplitLF(d.text))
    /\ UNCHANGED <<extVars, unit, op, config, options, attempt, lastError, ctrl, timerArmed, extAborted,
                   buffer, readerAcq, chunkCount, events, fetchCalls, sleeps, hist>>

\* the consumer asks for the next string: the for loop goes on
PlainResume ==
    /\ pc = "yielded"
    /\ op \in PlainStreamOps
    /\ PlainLines(lines)
    /\ UNCHANGED <<extVars, unit, op, config, options, attempt, lastError, ctrl, timerArmed, extAborted,
                   rest, buffer, carry, readerAcq, chunkCount, events, fetchCalls, sleeps,
                   hist>>

\* reader.read() resolves with done
PlainReadDone ==
    /\ pc = "awaitRead"
    /\ op \in PlainStreamOps
    /\ rest = <<>>
    /\ readerRel' = releaseLock(readerRel)
    /\ pc' = "done"
    /\ outcome' = "returned"
    /\ UNCHANGED <<extVars, unit, op, config, options, attempt, lastError, ctrl, timerArmed, extAborted,
                   rest, buffer, carry, lines, readerAcq, deltas, chunkCount, events, result,
                   fetchCalls, sleeps, hist>>

\* reader.read() rejects: the error reaches the consumer as it is
PlainReadError ==
    /\ pc = "awaitRead"
    /\ op \in PlainStreamOps
    /\ readerRel' = releaseLock(readerRel)
    /\ pc' = "done"
    /\ outcome' = "threw"
    /\ result' = Thrown(MkError("TypeError", <<"network", "error">>, attempt))
    /\ UNCHANGED <<extVars, unit, op, config, options, attempt, lastError, ctrl, timerArmed, extAborted,
                   rest, buffer, carry, lines, readerAcq, deltas, chunkCount, events,
                   fetchCalls, sleeps, hist>>

\* the consumer stops iterating: it calls return() on the generator (as a break
\* out of "for await" does) while the generator is suspended at a yield; the finally
\* blocks around that yield run, no catch block does, and nothing more is yielded
ConsumerReturn ==
    /\ \/ op \in EventOps /\ pc \in {"started", "yielded", "yieldedFinal"}
       \/ op \in PlainStreamOps /\ pc = "yielded"
    /\ pc' = "closed"
    /\ readerRel' = IF pc = "started" THEN readerRel ELSE releaseLock(readerRel)
    /\ lines' = <<>>
    /\ outcome' = "returned"
    /\ UNCHANGED <<extVars, unit, op, config, options, attempt, lastError, ctrl, timerArmed, extAborted,
                   rest, buffer, carry, readerAcq, deltas, chunkCount, events, result,
                   fetchCalls, sleeps, hist>>

-----------------------------------------------------------------------------

Next ==
    \/ Call
    \/ ResumeAfterStart
    \/ WakeAndRetry
    \/ Cancel
    \/ TimeoutFire
    \/ FetchNetworkError
    \/ FetchAbort
    \/ FetchErrorResponse
    \/ FetchOkUnary
    \/ FetchOkNoBody
    \/ FetchOkStream
    \/ ReadChunk
    \/ ResumeAfterChunk
    \/ ReadDone
    \/ ResumeAfterFinal
    \/ ReadError
    \/ ReadAbort
    \/ PlainReadChunk
    \/ PlainResume
    \/ PlainReadDone
    \/ PlainReadError
    \/ ConsumerReturn

Spec == Init /\ [][Next]_vars

-----------------------------------------------------------------------------
(* Private helpers of the client exercised on their own: the helper is named *)
(* by unit.fn, called once with unit.arg, and its value is kept in unit.out. *)

callVars == <<op, config, options, pc, attempt, lastError, ctrl, timerArmed, extAborted,
              rest, buffer, carry, lines, chunkCount, events, deltas, outcome, result,
              readerAcq, readerRel, fetchCalls, sleeps, hist>>

\* what an attempt met: an error response, or NoResponse when fetch rejected
NoResponse == [status |-> 0, body |-> [json |-> FALSE, message |-> <<>>], retryAfter |-> -1]

Failures == ErrorResponses \cup {NoResponse}

\* the error the operation passed to executeWithRetry throws for a failure:
\* fetch's TypeError, or "throw new Error(error.message)"
ThrownFor(cause, att) ==
    IF cause = NoResponse THEN MkError("TypeError", <<"Failed", "to", "fetch">>, att)
    ELSE MkError("Error", parseErrorResponse(cause).message, att)

\* values of Math.random(), in hundredths
Randoms == {0, 50, 99}

\* mutant: the exponential delay is not capped by maxDelay
calculateRetryDelayUncapped(att, opts, error, random) ==
    IF Includes(error.message, <<"Rate", "limit", "exceeded">>)
    THEN Min(opts.baseDelay * Pow(opts.backoffMultiplier, att + 1), opts.maxDelay)
    ELSE LET delay == opts.baseDelay * Pow(opts.backoffMultiplier, att)
             jitter == (random * delay) \div 1000
         IN delay + jitter

\* calculateRetryDelay, in milliseconds; random is the value of Math.random() in
\* hundredths, so that jitter = random * 0.1 * delay = (random * delay) / 1000
calculateRetryDelay(att, opts, error, random) ==
    IF Includes(error.message, <<"Rate", "limit", "exceeded">>)
    THEN Min(opts.baseDelay * Pow(opts.backoffMultiplier, att + 1), opts.maxDelay)
    ELSE LET delay == Min(opts.baseDelay * Pow(opts.backoffMultiplier, att), opts.maxDelay)
             jitter == (random * delay) \div 1000
         IN delay + jitter

\* the calls of calculateRetryDelay executeWithRetry can make: the attempt is not the
\* last one and its error is retryable
RetryDelayCalls ==
    { [fn |-> "calculateRetryDelay",
       arg |-> [attempt |-> x[2], options |-> x[1], error |-> ThrownFor(x[3], x[2]),
                cause |-> x[3]],
       out |-> <<>>, applied |-> FALSE] :
      x \in { y \in RetryPolicies \X (0..DefaultMaxRetries) \X Failures :
                 /\ y[2] < y[1].maxRetries
                 /\ isRetryableError(ThrownFor(y[3], y[2])) } }

ParseErrorCalls ==
    { [fn |-> "parseErrorResponse", arg |-> [response |-> r], out |-> <<>>, applied |-> FALSE] :
      r \in ErrorResponses }

(* URLs are sequences of tokens: "https:", "/", and pieces of text without a *)
(* slash; "api" followed by "ary" is the one segment 'apiary'.               *)

\* the longest path and the most trailing slashes a configured base URL has
MaxPathSegments == 2

MaxTrailingSlashes == 2

Hosts == { <<"fastgpt.io">>, <<"api", ".fastgpt.io">>, <<"localhost">> }

Segments == { <<"api">>, <<"api", "ary">>, <<"v2">> }

RECURSIVE Paths(_)
Paths(n) ==
    IF n = 0 THEN { <<>> }
    ELSE Paths(n - 1) \cup { p \o <<"/">> \o g : p \in Paths(n - 1), g \in Segments }

RECURSIVE Slashes(_)
Slashes(n) == IF n = 0 THEN <<>> ELSE <<"/">> \o Slashes(n - 1)

\* values of config.baseUrl that pass validateConfig
ApiBaseUrls ==
    { <<"https:", "/", "/">> \o h \o p \o Slashes(n) :
      h \in Hosts, p \in Paths(MaxPathSegments), n \in 0..MaxTrailingSlashes }

ChatCompletions == <<"/", "v1", "/", "chat", "/", "completions">>

\* String.prototype.replace(/\/$/, "")
StripTrailingSlash(url) ==
    IF url # <<>> /\ url[Len(url)] = "/" THEN SubSeq(url, 1, Len(url) - 1) ELSE url

\* buildApiUrl, baseUrl being this.config.baseUrl
buildApiUrl(baseUrl, endpoint) ==
    LET base == StripTrailingSlash(baseUrl)
        apiPath == IF Includes(base, <<"/", "api">>) THEN <<>> ELSE <<"/", "api">>
    IN base \o apiPath \o endpoint

BuildUrlCalls ==
    { [fn |-> "buildApiUrl", arg |-> [baseUrl |-> u, endpoint |-> ChatCompletions],
       out |-> <<>>, applied |-> FALSE] : u \in ApiBaseUrls }

\* the kinds of text classifyStreamingError looks for in an error's message
Markers == {"cancel", "deadline", "transport", "decode", "auth"}

\* a text that carries the marker; alt picks the other spelling the code accepts
MarkerText(marker, alt) ==
    CASE marker = "cancel"    -> IF alt THEN <<"Stream", "was", "aborted">> ELSE <<"aborted">>
      [] marker = "deadline"  -> IF alt THEN <<"Request", "timeout">> ELSE <<"timeout">>
      [] marker = "transport" -> IF alt THEN <<"connection", "lost">> ELSE <<"fetch">>
      [] marker = "decode"    -> IF alt THEN <<"parse">> ELSE <<"JSON">>
      [] OTHER                -> IF alt THEN <<"Access", "forbidden">>
                                        ELSE <<"Authentication", "failed">>

\* the message of an error carrying exactly the markers of S, last test first
MessageWith(S, alt) ==
    LET part(marker) == IF marker \in S THEN MarkerText(marker, alt) ELSE <<>>
    IN  <<"Error", ":">> \o part("auth") \o part("decode") \o part("transport")
            \o part("deadline") \o part("cancel")

\* errors reaching the catch block of sendMessageStreamWithEvents, after chunkCount chunks
ClassifyCalls ==
    { [fn |-> "classifyStreamingError",
       arg |-> [error |-> MkError(x[3], MessageWith(x[1], x[2]), 0), markers |-> x[1],
                chunkCount |-> x[4]],
       out |-> <<>>, applied |-> FALSE] :
      x \in (SUBSET Markers) \X BOOLEAN \X {"Error", "AbortError"} \X {0, 1} }

UnitInit ==
    /\ op = "sendMessage"
    /\ config = [baseUrl |-> "https://fastgpt.io", appId |-> "app", apiKey |-> "key"]
    /\ options = NoOptions
    /\ Quiescent
    /\ unit \in RetryDelayCalls \cup ParseErrorCalls \cup BuildUrlCalls \cup ClassifyCalls
    /\ NoExtension

\* executeWithRetry's "const delay = this.calculateRetryDelay(attempt, options, error)"
ApplyCalculateRetryDelay ==
    /\ unit.fn = "calculateRetryDelay"
    /\ ~unit.applied
    /\ \E random \in Randoms :
          unit' = [unit EXCEPT !.out = calculateRetryDelay(unit.arg.attempt, unit.arg.options,
                                                            unit.arg.error, random),
                               !.applied = TRUE]
    /\ UNCHANGED <<callVars, extVars>>

\* "const error = await this.parseErrorResponse(response)"
ApplyParseErrorResponse ==
    /\ unit.fn = "parseErrorResponse"
    /\ ~unit.applied
    /\ unit' = [unit EXCEPT !.out = parseErrorResponse(unit.arg.response), !.applied = TRUE]
    /\ UNCHANGED <<callVars, extVars>>

\* "this.buildApiUrl('/v1/chat/completions')"
ApplyBuildApiUrl ==
    /\ unit.fn = "buildApiUrl"
    /\ ~unit.applied
    /\ unit' = [unit EXCEPT !.out = buildApiUrl(unit.arg.baseUrl, unit.arg.endpoint),
                            !.applied = TRUE]
    /\ UNCHANGED <<callVars, extVars>>

\* the catch block of sendMessageStreamWithEvents: classify, then yield the error event
ApplyClassifyStreamingError ==
    /\ unit.fn = "classifyStreamingError"
    /\ ~unit.applied
    /\ unit' = [unit EXCEPT !.out = <<ErrorEvent(classifyStreamingError(unit.arg.error),
                                                 unit.arg.chunkCount)>>,
                            !.applied = TRUE]
    /\ UNCHANGED <<callVars, extVars>>

UnitNext ==
    \/ ApplyClassifyStreamingError
    \/ ApplyCalculateRetryDelay
    \/ ApplyParseErrorResponse
    \/ ApplyBuildApiUrl

UnitSpec == UnitInit /\ [][UnitNext]_vars

-----------------------------------------------------------------------------
(* The extension's setup state: ChromeStorageManager over chrome.storage.local *)
(* and ExtensionStateManager, called by callers whose calls interleave at the  *)
(* storage awaits.                                                             *)

Callers == {1, 2}

Views == {"onboarding", "configuration", "chat", "settings"}

\* the asynchronous operations a caller may call, and the step each begins with
AsyncOps ==
    {"getExtensionState", "loadState", "completeOnboarding", "completeConfiguration",
     "resetOnboarding", "resetConfiguration", "resetAllState"}

NavigationOps == {"setCurrentView", "forceTransitionTo"}

FirstStep(fn) ==
    CASE fn \in {"completeOnboarding", "resetOnboarding"} -> "getSetup"
      [] fn = "completeConfiguration" -> "setConfig"
      [] fn = "resetConfiguration" -> "removeConfig"
      [] fn = "resetAllState" -> "clear"
      [] OTHER -> "readSetup"

\* a StorageResult; error "" and data NoState stand for absent fields
StorageResult(success, error, data) == [success |-> success, error |-> error, data |-> data]

NoStorageResult == StorageResult(FALSE, "", NoState)

\* a caller that has not called yet
NoCall ==
    [fn |-> "none", target |-> "", pc |-> "idle", setup |-> NoSetupState, setupOk |-> TRUE,
     result |-> NoStorageResult]

\* what chrome.storage.local may hold when the popup opens: nothing, or what
\* completed earlier operations left there
InstalledStorages ==
    { EmptyStorage,
      [setupState |-> SetupState(TRUE, FALSE, FALSE), fastgptConfig |-> FALSE],
      [setupState |-> SetupState(TRUE, TRUE, FALSE), fastgptConfig |-> FALSE],
      [setupState |-> SetupState(TRUE, FALSE, TRUE), fastgptConfig |-> TRUE],
      [setupState |-> SetupState(TRUE, TRUE, TRUE), fastgptConfig |-> TRUE] }

\* getSetupState: "result.setupState || defaultState"
getSetupState(st) == IF st.setupState.stored THEN st.setupState ELSE NoSetupState

\* mutant: configurationComplete alone selects the chat view
currentViewByConfiguration(setup) ==
    IF setup.configurationComplete THEN "chat"
    ELSE IF setup.onboardingComplete THEN "configuration"
    ELSE "onboarding"

\* getExtensionState: the view chosen from the setup flags
currentViewOf(setup) ==
    IF setup.onboardingComplete /\ ~setup.configurationComplete THEN "configuration"
    ELSE IF setup.onboardingComplete /\ setup.configurationComplete THEN "chat"
    ELSE "onboarding"

isOnboardingComplete(cs) == cs.loaded /\ cs.setupComplete

isConfigurationComplete(cs) == cs.loaded /\ cs.configurationComplete

\* getCurrentView: "this.currentState?.currentView || 'onboarding'"
getCurrentView(cs) == IF cs.loaded THEN cs.currentView ELSE "onboarding"

\* mutant: settings needs onboarding only
canTransitionToSettingsEarly(cs, targetView) ==
    CASE targetView = "onboarding" -> TRUE
      [] targetView = "configuration" -> isOnboardingComplete(cs)
      [] targetView = "chat" -> isOnboardingComplete(cs) /\ isConfigurationComplete(cs)
      [] targetView = "settings" -> isOnboardingComplete(cs)
      [] OTHER -> FALSE

canTransitionTo(cs, targetView) ==
    CASE targetView = "onboarding" -> TRUE
      [] targetView = "configuration" -> isOnboardingComplete(cs)
      [] targetView = "chat" -> isOnboardingComplete(cs) /\ isConfigurationComplete(cs)
      [] targetView = "settings" -> isOnboardingComplete(cs) /\ isConfigurationComplete(cs)
      [] OTHER -> FALSE

StateInit ==
    /\ op = "sendMessage"
    /\ config = [baseUrl |-> "https://fastgpt.io", appId |-> "app", apiKey |-> "key"]
    /\ options = NoOptions
    /\ Quiescent
    /\ unit = NoUnit
    /\ storage \in InstalledStorages
    /\ manager = NewManager
    /\ calls = [c \in Callers |-> NoCall]
    /\ exchanges = <<>>
    /\ NoChat

\* the call of caller c returns a failure
Fails(c, error) ==
    calls' = [calls EXCEPT ![c].pc = "done", ![c].result = StorageResult(FALSE, error, NoState)]

\* a caller calls one of the asynchronous operations: it runs up to its first await
StartCall(c) ==
    /\ calls[c].pc = "idle"
    /\ \E fn \in AsyncOps :
          calls' = [calls EXCEPT ![c].fn = fn, ![c].pc = FirstStep(fn)]
    /\ UNCHANGED <<callVars, unit, exchanges, chatVars, storage, manager>>

\* setCurrentView / forceTransitionTo: no await inside, so the call is one step
SetCurrentView(c, fn, targetView) ==
    /\ calls[c].pc = "idle"
    /\ IF ~canTransitionTo(manager.currentState, targetView)
       THEN /\ calls' = [calls EXCEPT ![c].fn = fn, ![c].target = targetView, ![c].pc = "done",
                                      ![c].result = StorageResult(FALSE,
                                                        "Invalid state transition", NoState)]
            /\ manager' = manager
       ELSE /\ manager' = IF manager.currentState.loaded
                          THEN [currentState |-> [manager.currentState
                                                    EXCEPT !.currentView = targetView],
                                notified |-> manager.notified + 1]
                          ELSE manager
            /\ calls' = [calls EXCEPT ![c].fn = fn, ![c].target = targetView, ![c].pc = "done",
                                      ![c].result = StorageResult(TRUE, "",
                                                        manager'.currentState)]
    /\ UNCHANGED <<callVars, unit, exchanges, chatVars, storage>>

Navigate ==
    \E c \in Callers, fn \in NavigationOps, targetView \in Views : SetCurrentView(c, fn, targetView)

\* completeConfiguration: "await this.storageManager.setFastGPTConfig(config)"
SetFastGPTConfigStep(c) ==
    /\ calls[c].pc = "setConfig"
    /\ \E ok \in BOOLEAN :
          IF ok
          THEN /\ storage' = [storage EXCEPT !.fastgptConfig = TRUE]
               /\ calls' = [calls EXCEPT ![c].pc = "getSetup"]
          ELSE /\ Fails(c, "Failed to store FastGPT config")
               /\ storage' = storage
    /\ UNCHANGED <<callVars, unit, exchanges, chatVars, manager>>

\* resetConfiguration: "await this.storageManager.removeData(['fastgptConfig'])"
RemoveDataStep(c) ==
    /\ calls[c].pc = "removeConfig"
    /\ \E ok \in BOOLEAN :
          IF ok
          THEN /\ storage' = [storage EXCEPT !.fastgptConfig = FALSE]
               /\ calls' = [calls EXCEPT ![c].pc = "getSetup"]
          ELSE /\ Fails(c, "Failed to remove data")
               /\ storage' = storage
    /\ UNCHANGED <<callVars, unit, exchanges, chatVars, manager>>

\* resetAllState: "await this.storageManager.clearAllData()"
ClearAllDataStep(c) ==
    /\ calls[c].pc = "clear"
    /\ \E ok \in BOOLEAN :
          IF ok
          THEN /\ storage' = EmptyStorage
               /\ calls' = [calls EXCEPT ![c].pc = "readSetup"]
          ELSE /\ Fails(c, "Failed to clear data")
               /\ storage' = storage
    /\ UNCHANGED <<callVars, unit, exchanges, chatVars, manager>>

\* the complete and reset operations: "await this.storageManager.getSetupState()"
GetSetupStateStep(c) ==
    /\ calls[c].pc = "getSetup"
    /\ \E ok \in BOOLEAN :
          IF ok
          THEN calls' = [calls EXCEPT ![c].setup = getSetupState(storage), ![c].pc = "setSetup"]
          ELSE Fails(c, "Failed to retrieve setup state")
    /\ UNCHANGED <<callVars, unit, exchanges, chatVars, storage, manager>>

\* the value each operation passes to setSetupState, given the setup state it read
setSetupStateArgs(fn, setup) ==
    CASE fn = "completeOnboarding" -> SetupState(TRUE, TRUE, setup.configurationComplete)
      [] fn = "completeConfiguration" -> SetupState(TRUE, setup.onboardingComplete, TRUE)
      [] fn = "resetOnboarding" -> SetupState(TRUE, FALSE, setup.configurationComplete)
      [] OTHER -> SetupState(TRUE, setup.onboardingComplete, FALSE)

\* completeOnboarding: setSetupState(true, setupState.configurationComplete);
\* completeConfiguration: setSetupState(setupState.onboardingComplete, true);
\* resetOnboarding: setSetupState(false, setupState.configurationComplete);
\* resetConfiguration: setSetupState(setupState.onboardingComplete, false)
SetSetupStateStep(c) ==
    /\ calls[c].pc = "setSetup"
    /\ \E ok \in BOOLEAN :
          IF ok
          THEN /\ storage' = [storage EXCEPT !.setupState =
                                   setSetupStateArgs(calls[c].fn, calls[c].setup)]
               /\ calls' = [calls EXCEPT ![c].pc = "readSetup"]
          ELSE /\ Fails(c, "Failed to store setup state")
               /\ storage' = storage
    /\ UNCHANGED <<callVars, unit, exchanges, chatVars, manager>>

\* getExtensionState: "await this.getSetupState()"
ReadSetupStep(c) ==
    /\ calls[c].pc = "readSetup"
    /\ \E ok \in BOOLEAN :
          calls' = [calls EXCEPT ![c].setup = IF ok THEN getSetupState(storage) ELSE NoSetupState,
                                 ![c].setupOk = ok,
                                 ![c].pc = "readConfig"]
    /\ UNCHANGED <<callVars, unit, exchanges, chatVars, storage, manager>>

\* getExtensionState: "await this.getFastGPTConfig()" and the rest; then, under the
\* state manager, loadState / refreshState: currentState and the listeners
ReadConfigStep(c) ==
    /\ calls[c].pc = "readConfig"
    /\ \E ok \in BOOLEAN :
          IF ~calls[c].setupOk
          THEN /\ Fails(c, "Failed to retrieve setup state")
               /\ manager' = manager
          ELSE LET data == ExtensionState(TRUE, calls[c].setup.onboardingComplete,
                                          calls[c].setup.configurationComplete,
                                          currentViewOf(calls[c].setup),
                                          ok /\ storage.fastgptConfig)
               IN /\ calls' = [calls EXCEPT ![c].pc = "done",
                                            ![c].result = StorageResult(TRUE, "", data)]
                  /\ manager' = IF calls[c].fn = "getExtensionState" THEN manager
                                ELSE [currentState |-> data, notified |-> manager.notified + 1]
    /\ UNCHANGED <<callVars, unit, exchanges, chatVars, storage>>

StateNext ==
    \/ \E c \in Callers : StartCall(c)
    \/ Navigate
    \/ \E c \in Callers : SetFastGPTConfigStep(c)
    \/ \E c \in Callers : RemoveDataStep(c)
    \/ \E c \in Callers : ClearAllDataStep(c)
    \/ \E c \in Callers : GetSetupStateStep(c)
    \/ \E c \in Callers : SetSetupStateStep(c)
    \/ \E c \in Callers : ReadSetupStep(c)
    \/ \E c \in Callers : ReadConfigStep(c)

StateSpec == StateInit /\ [][StateNext]_vars

-----------------------------------------------------------------------------
(* Two streaming exchanges on one client.  What an exchange keeps is what the *)
(* code keeps in locals of sendMessageStreamWithEvents, executeWithRetry,     *)
(* createEnhancedStreamGenerator and processEnhancedStreamResponse; the two   *)
(* share the client's config.  The body arrives one frame per read.           *)

Exchanges == {1, 2}

PairBody == <<"A", "B">>

\* what the transport does to an exchange: the first `fails` fetches are rejected,
\* the next one is answered with 200 and the body, or with 401
Scripts == [fails : {0, 1, DefaultMaxRetries + 1}, final : {"ok", "denied"}]

NewExchange(script) ==
    [script |-> script, pc |-> "idle", attempt |-> 0, ctrl |-> "none", extAborted |-> FALSE,
     rest |-> <<>>, chunkCount |-> 0, events |-> <<>>, fetchCalls |-> 0, sleeps |-> 0]

PairInit ==
    /\ op = "sendMessageStreamWithEvents"
    /\ config = [baseUrl |-> "https://fastgpt.io", appId |-> "app", apiKey |-> "key"]
    /\ options = [timeout |-> FALSE, signal |-> TRUE]
    /\ Quiescent
    /\ unit = NoUnit
    /\ storage = EmptyStorage
    /\ manager = NewManager
    /\ calls = <<>>
    /\ NoChat
    /\ exchanges \in [Exchanges -> {NewExchange(s) : s \in Scripts}]

pairFrame == <<callVars, unit, storage, manager, calls, chatVars>>

\* mutant: one controller on the client serves every exchange
ListenersOnClient(i) == Exchanges

\* the exchanges whose controller listens to the abort signal given to exchange i:
\* "const controller = new AbortController()" is a local of the attempt
Listeners(i) == {i}

\* a new attempt: controller, listener, fetch
XBegin(x, att) ==
    [x EXCEPT !.attempt = att, !.ctrl = "live", !.fetchCalls = @ + 1, !.pc = "awaitHeaders"]

\* executeWithRetry throws e: the wrapper's catch block emits the error event
XRetryThrows(x, e) ==
    [x EXCEPT !.pc = "done", !.ctrl = "none",
              !.events = Append(@, ErrorEvent(classifyStreamingError(e), x.chunkCount))]

\* the attempt throws e: executeWithRetry's catch block
XAttemptThrows(x, e) ==
    IF LastAttempt(x.attempt) THEN XRetryThrows(x, ThrownAfterLoop(e))
    ELSE IF ~isRetryableError(e) THEN XRetryThrows(x, e)
    ELSE [x EXCEPT !.pc = "sleep", !.ctrl = "none", !.sleeps = @ + 1]

\* the decoder throws e: its catch, then the wrapper's catch
XDecoderThrows(x, e) ==
    [x EXCEPT !.pc = "done",
              !.events = Append(@, ErrorEvent(classifyStreamingError(EnhancedCatch(e)),
                                              x.chunkCount))]

\* the first next(): validateConfig, then the start event
XCall(i) ==
    /\ exchanges[i].pc = "idle"
    /\ LET v == validateConfig(config)
       IN exchanges' = [exchanges EXCEPT ![i] =
              IF v # <<>>
              THEN [@ EXCEPT !.pc = "done", !.events = <<ValidationErrorEvent(v)>>]
              ELSE [@ EXCEPT !.pc = "started", !.events = <<StartEvent>>]]
    /\ UNCHANGED pairFrame

XResumeAfterStart(i) ==
    /\ exchanges[i].pc = "started"
    /\ exchanges' = [exchanges EXCEPT ![i] = XBegin(@, 0)]
    /\ UNCHANGED pairFrame

XWakeAndRetry(i) ==
    /\ exchanges[i].pc = "sleep"
    /\ exchanges' = [exchanges EXCEPT ![i] = XBegin(@, @.attempt + 1)]
    /\ UNCHANGED pairFrame

\* the abort signal given to exchange i fires: the listeners on it run
XCancel(i) ==
    /\ exchanges[i].pc \notin {"idle", "done"}
    /\ ~exchanges[i].extAborted
    /\ exchanges' = [j \in Exchanges |->
          LET x == IF j = i THEN [exchanges[j] EXCEPT !.extAborted = TRUE] ELSE exchanges[j]
          IN IF j \in Listeners(i) /\ x.ctrl = "live" THEN [x EXCEPT !.ctrl = "aborted"] ELSE x]
    /\ UNCHANGED pairFrame

\* the fetch of exchange i settles
XFetch(i) ==
    /\ exchanges[i].pc = "awaitHeaders"
    /\ exchanges' = [exchanges EXCEPT ![i] =
          IF @.ctrl = "aborted"
          THEN XAttemptThrows(@, FetchCatch(MkError("AbortError", <<"The", "user", "aborted",
                                                                    "a", "request">>, @.attempt)))
          ELSE IF @.attempt < @.script.fails
          THEN XAttemptThrows(@, FetchCatch(MkError("TypeError", <<"Failed", "to", "fetch">>,
                                                    @.attempt)))
          ELSE IF @.script.final = "denied"
          THEN XAttemptThrows(@, MkError("Error",
                   parseErrorResponse([status |-> 401, retryAfter |-> -1,
                                       body |-> [json |-> TRUE, message |-> <<>>]]).message,
                   @.attempt))
          ELSE [@ EXCEPT !.pc = "awaitRead", !.rest = PairBody]]
    /\ UNCHANGED pairFrame

\* the pending read of exchange i settles: rejected, done, or one frame
XRead(i) ==
    /\ exchanges[i].pc = "awaitRead"
    /\ exchanges' = [exchanges EXCEPT ![i] =
          IF @.ctrl = "aborted"
          THEN XDecoderThrows(@, MkError("AbortError", <<"The", "user", "aborted", "a",
                                                         "request">>, @.attempt))
          ELSE IF @.rest = <<>>
          THEN [@ EXCEPT !.pc = "done", !.events = Append(@, CompleteEvent(exchanges[i].chunkCount))]
          ELSE [@ EXCEPT !.pc = "yielded", !.rest = Tail(@),
                         !.chunkCount = NextChunkCount(@),
                         !.events = Append(@, ChunkEvent(Head(exchanges[i].rest),
                                                         NextChunkCount(exchanges[i].chunkCount)))]]
    /\ UNCHANGED pairFrame

\* the consumer of exchange i asks for the next event: the abort check, then a read
XResumeAfterChunk(i) ==
    /\ exchanges[i].pc = "yielded"
    /\ exchanges' = [exchanges EXCEPT ![i] =
          IF AbortSeen(@.ctrl)
          THEN XDecoderThrows(@, MkError("Error", <<"Stream", "was", "aborted">>, @.attempt))
          ELSE [@ EXCEPT !.pc = "awaitRead"]]
    /\ UNCHANGED pairFrame

PairNext ==
    \E i \in Exchanges :
        \/ XCall(i)
        \/ XResumeAfterStart(i)
        \/ XWakeAndRetry(i)
        \/ XCancel(i)
        \/ XFetch(i)
        \/ XRead(i)
        \/ XResumeAfterChunk(i)

PairSpec == PairInit /\ [][PairNext]_vars

-----------------------------------------------------------------------------
(* ChromeStorageManager.setChatSession.  A stored session is the number of   *)
(* the version written for its id, 0 when no session is stored under the id. *)

SessionIds == {"s1", "s2", "s3"}

Versions == {1, 2}

\* "{}": no session under any id
NoSessions == [id \in SessionIds |-> 0]

NoSessionCall ==
    [sessionId |-> "", session |-> 0, pc |-> "idle", sessions |-> NoSessions,
     result |-> NoStorageResult]

SessionInit ==
    /\ op = "sendMessage"
    /\ config = [baseUrl |-> "https://fastgpt.io", appId |-> "app", apiKey |-> "key"]
    /\ options = NoOptions
    /\ Quiescent
    /\ unit = NoUnit
    /\ storage = EmptyStorage
    /\ manager = NewManager
    /\ calls = <<>>
    /\ exchanges = <<>>
    /\ chatComponent = <<>>
    /\ chatSessions \in [SessionIds -> {0, 1}]
    /\ sessionCalls = [c \in Callers |-> NoSessionCall]

sessionFrame == <<callVars, unit, storage, manager, calls, exchanges, chatComponent>>

\* "sessions[sessionId] = {...}; chatSessions: sessions": the value setStorageData is
\* given, built on the sessions the call read
sessionsToStore(read, sessionId, session) == [read EXCEPT ![sessionId] = session]

\* a caller calls setChatSession(sessionId, session): up to "await this.getChatSessions()"
SetChatSession(c) ==
    /\ sessionCalls[c].pc = "idle"
    /\ \E id \in SessionIds, v \in Versions :
          sessionCalls' = [sessionCalls EXCEPT ![c].sessionId = id, ![c].session = v,
                                               ![c].pc = "getChatSessions"]
    /\ UNCHANGED <<sessionFrame, chatSessions>>

\* getChatSessions settles: "existingSessions.success ? existingSessions.data || {} : {}"
GetChatSessionsStep(c) ==
    /\ sessionCalls[c].pc = "getChatSessions"
    /\ \E ok \in BOOLEAN :
          sessionCalls' = [sessionCalls EXCEPT
                              ![c].sessions = IF ok THEN chatSessions ELSE NoSessions,
                              ![c].pc = "setStorageData"]
    /\ UNCHANGED <<sessionFrame, chatSessions>>

\* "await this.setStorageData(storageData)" settles; a rejection is caught
SetStorageDataStep(c) ==
    /\ sessionCalls[c].pc = "setStorageData"
    /\ \E ok \in BOOLEAN :
          IF ok
          THEN /\ chatSessions' = sessionsToStore(sessionCalls[c].sessions,
                                                  sessionCalls[c].sessionId,
                                                  sessionCalls[c].session)
               /\ sessionCalls' = [sessionCalls EXCEPT
                                      ![c].pc = "done",
                                      ![c].result = StorageResult(TRUE, "", NoState)]
          ELSE /\ chatSessions' = chatSessions
               /\ sessionCalls' = [sessionCalls EXCEPT
                                      ![c].pc = "done",
                                      ![c].result = StorageResult(FALSE,
                                                        "Failed to store chat session", NoState)]
    /\ UNCHANGED sessionFrame

SessionNext ==
    \/ \E c \in Callers : SetChatSession(c)
    \/ \E c \in Callers : GetChatSessionsStep(c)
    \/ \E c \in Callers : SetStorageDataStep(c)

SessionSpec == SessionInit /\ [][SessionNext]_vars

-----------------------------------------------------------------------------
(* ChatComponent: handleSendMessage and streamMessageResponse.  An invocation *)
(* of handleSendMessage is suspended where it awaits chrome.storage or the    *)
(* stream; awaits that settle without leaving the microtask queue are part of *)
(* the step around them.                                                      *)

Invocations == {1, 2}

\* the largest number of chunks a stream delivers
MaxChunks == 2

NoSend == [pc |-> "idle", chunkCount |-> 0, streamed |-> FALSE]

ChatInit ==
    /\ op = "sendMessage"
    /\ config = [baseUrl |-> "https://fastgpt.io", appId |-> "app", apiKey |-> "key"]
    /\ options = NoOptions
    /\ Quiescent
    /\ unit = NoUnit
    /\ storage = EmptyStorage
    /\ manager = NewManager
    /\ calls = <<>>
    /\ exchanges = <<>>
    /\ chatSessions = <<>>
    /\ sessionCalls = <<>>
    /\ chatComponent \in { [fastgptClient |-> client, currentSession |-> FALSE,
                            isLoading |-> FALSE, isStreaming |-> FALSE,
                            sends |-> [h \in Invocations |-> NoSend]] : client \in BOOLEAN }

chatFrame == <<callVars, unit, storage, manager, calls, exchanges, chatSessions, sessionCalls>>

\* render: "await this.loadOrCreateChatSession()" settles, after the listeners were set up
LoadOrCreateChatSession ==
    /\ chatComponent # <<>>
    /\ ~chatComponent.currentSession
    /\ chatComponent' = [chatComponent EXCEPT !.currentSession = TRUE]
    /\ UNCHANGED chatFrame

\* the guard at the top of handleSendMessage
MaySend(cc, hasMessage) ==
    ~(~hasMessage \/ cc.isLoading \/ cc.isStreaming \/ ~cc.fastgptClient)

\* the Enter key or the send button: handleSendMessage up to its first suspension.
\* Without a current session addMessageToSession does nothing, setStreamingState(true)
\* runs, streamMessageResponse throws before its try block, and showErrorMessage
\* has nothing to store either.
HandleSendMessage(h) ==
    /\ chatComponent # <<>>
    /\ chatComponent.sends[h].pc = "idle"
    /\ \E hasMessage \in BOOLEAN :
          chatComponent' =
              IF ~MaySend(chatComponent, hasMessage)
              THEN [chatComponent EXCEPT !.sends[h].pc = "done"]
              ELSE IF chatComponent.currentSession
              THEN [chatComponent EXCEPT !.sends[h].pc = "addUserMessage"]
              ELSE [chatComponent EXCEPT !.isStreaming = TRUE, !.sends[h].pc = "done"]
    /\ UNCHANGED chatFrame

\* "await this.addMessageToSession(userMessage)" settles
UserMessageSaved(h) ==
    /\ chatComponent # <<>>
    /\ chatComponent.sends[h].pc = "addUserMessage"
    /\ chatComponent' = [chatComponent EXCEPT !.sends[h].pc = "addAssistantMessage"]
    /\ UNCHANGED chatFrame

\* "await this.addMessageToSession(assistantMessage)" settles: setStreamingState(true),
\* then streamMessageResponse up to the first next() of sendMessageStream
AssistantMessageSaved(h) ==
    /\ chatComponent # <<>>
    /\ chatComponent.sends[h].pc = "addAssistantMessage"
    /\ chatComponent' = [chatComponent EXCEPT !.isStreaming = TRUE,
                                              !.sends[h].pc = "streaming",
                                              !.sends[h].streamed = TRUE]
    /\ UNCHANGED chatFrame

\* the stream yields a chunk: "if (!this.isStreaming) break", or accumulate it
StreamChunk(h) ==
    /\ chatComponent # <<>>
    /\ chatComponent.sends[h].pc = "streaming"
    /\ chatComponent.sends[h].chunkCount < MaxChunks
    /\ chatComponent' =
          IF ~chatComponent.isStreaming
          THEN [chatComponent EXCEPT !.sends[h].pc = "saveChatSession"]
          ELSE [chatComponent EXCEPT !.sends[h].chunkCount = @ + 1]
    /\ UNCHANGED chatFrame

\* the stream ends, or throws
StreamEnds(h) ==
    /\ chatComponent # <<>>
    /\ chatComponent.sends[h].pc = "streaming"
    /\ \E threw \in BOOLEAN :
          chatComponent' = [chatComponent EXCEPT
                               !.sends[h].pc = IF threw THEN "saveAfterError"
                                               ELSE "saveChatSession"]
    /\ UNCHANGED chatFrame

\* the first "await this.saveChatSession()" after the loop settles
SessionSaved(h) ==
    /\ chatComponent # <<>>
    /\ chatComponent.sends[h].pc = "saveChatSession"
    /\ chatComponent' = [chatComponent EXCEPT !.sends[h].pc = "saveChatSessionAgain"]
    /\ UNCHANGED chatFrame

\* the second one settles: "finally { this.setStreamingState(false) }", and
\* handleSendMessage returns
SessionSavedAgain(h) ==
    /\ chatComponent # <<>>
    /\ chatComponent.sends[h].pc = "saveChatSessionAgain"
    /\ chatComponent' = [chatComponent EXCEPT !.isStreaming = FALSE, !.sends[h].pc = "done"]
    /\ UNCHANGED chatFrame

\* the catch block's "await this.saveChatSession()" settles: rethrow, finally, and
\* handleSendMessage's catch up to "await this.showErrorMessage(...)"
ErrorSaved(h) ==
    /\ chatComponent # <<>>
    /\ chatComponent.sends[h].pc = "saveAfterError"
    /\ chatComponent' = [chatComponent EXCEPT !.isStreaming = FALSE,
                                              !.sends[h].pc = "showErrorMessage"]
    /\ UNCHANGED chatFrame

\* showErrorMessage settles: handleSendMessage returns
ErrorShown(h) ==
    /\ chatComponent # <<>>
    /\ chatComponent.sends[h].pc = "showErrorMessage"
    /\ chatComponent' = [chatComponent EXCEPT !.sends[h].pc = "done"]
    /\ UNCHANGED chatFrame

ChatNext ==
    \/ LoadOrCreateChatSession
    \/ \E h \in Invocations : HandleSendMessage(h)
    \/ \E h \in Invocations : UserMessageSaved(h)
    \/ \E h \in Invocations : AssistantMessageSaved(h)
    \/ \E h \in Invocations : StreamChunk(h)
    \/ \E h \in Invocations : StreamEnds(h)
    \/ \E h \in Invocations : SessionSaved(h)
    \/ \E h \in Invocations : SessionSavedAgain(h)
    \/ \E h \in Invocations : ErrorSaved(h)
    \/ \E h \in Invocations : ErrorShown(h)

ChatSpec == ChatInit /\ [][ChatNext]_vars

-----------------------------------------------------------------------------
(* Properties *)

Last(q) == q[Len(q)]

Terminal(e) == e.type \in {"complete", "error", "abort"}

ChunkIndexes == {i \in 1..Len(events) : events[i].type = "chunk"}

ValidConfig == validateConfig(config) = <<>>

\* the content deltas of a whole body, whatever the reads it arrives in
RECURSIVE FrameContents(_)
FrameContents(ls) ==
    IF ls = <<>> THEN <<>> ELSE EnhancedLine(Head(ls)) \o FrameContents(Tail(ls))

BodyDeltas(body) == FrameContents(SplitLF(DecodeFrom(<<>>, body).text))

(* C1: an exchange of an event-emitting operation emits at most one terminal
   event (complete, error or abort), nothing follows it (so every chunk event
   precedes it), and once the exchange has been consumed to its end its last
   event is a terminal event. *)
C1_OneTerminalEvent ==
    op \in EventOps =>
        /\ \A i \in 1..Len(events) : Terminal(events[i]) => i = Len(events)
        /\ pc = "done" => (events # <<>> /\ Terminal(Last(events)))

\* an exchange that streamed two chunks, was then cancelled and ended with an error event
C1_Witness ==
    /\ op \in EventOps
    /\ pc = "done"
    /\ Len(events) = 4
    /\ events[3].type = "chunk"
    /\ events[4].type = "error"
    /\ extAborted

(* C2 as stated: with a valid configuration the first event is start, the
   events between start and the terminal event are chunk events, and the k-th
   chunk event (k = 0, 1, ...) carries currentChunk = k. *)
C2_IndexFromZero ==
    (op \in EventOps /\ ValidConfig) =>
        \A i \in 1..Len(events) :
            /\ i = 1 => events[i].type = "start"
            /\ (1 < i /\ i < Len(events)) => events[i].type = "chunk"
            /\ events[i].type = "chunk" => events[i].currentChunk = i - 2

(* C2 amended: with a valid configuration the first event is start, the events
   between start and the terminal event are chunk events, and the running
   index carried by the chunk events starts at 1 for the first chunk and
   increases by exactly 1 for each following chunk. *)
C2_IndexFromOne ==
    (op \in EventOps /\ ValidConfig) =>
        \A i \in 1..Len(events) :
            /\ i = 1 => events[i].type = "start"
            /\ (1 < i /\ i < Len(events)) => events[i].type = "chunk"
            /\ i > 1 => events[i].type \in {"chunk", "complete", "error"}
            /\ events[i].type = "chunk" => events[i].currentChunk = i - 1

\* start, two chunks, complete
C2_Witness ==
    /\ op \in EventOps
    /\ pc = "done"
    /\ Len(events) = 4
    /\ events[2].type = "chunk"
    /\ events[3].type = "chunk"
    /\ events[4].type = "complete"

(* C3: when an exchange ends with a complete event, its totalChunks equals the
   number of chunk events emitted before it, which equals the number of
   non-empty content deltas of the response body, and the chunk events carry
   those deltas in wire order. *)
C3_TotalChunks ==
    (op \in EventOps /\ events # <<>> /\ Last(events).type = "complete") =>
        /\ Last(events).totalChunks = Cardinality(ChunkIndexes)
        /\ Last(events).totalChunks = Len(BodyDeltas(hist.body))
        /\ \A i \in ChunkIndexes : events[i].data = BodyDeltas(hist.body)[i - 1]

\* frames A, B, [DONE] (longer than one read delivers): start, chunk, chunk, complete(2)
C3_Witness ==
    /\ op \in EventOps
    /\ hist.body = Frame("A") \o Frame("B") \o DoneFrame
    /\ Len(events) = 4
    /\ Last(events).type = "complete"
    /\ Last(events).totalChunks = 2

RetryableStatuses == {429, 500, 502, 503, 504, 408}

NonRetryableStatuses == {400, 401, 403, 404}

(* C4 as stated: when every attempt received the same HTTP status out of
   429, 500, 502, 503, 504, 408, the operation has made exactly maxRetries + 1
   transport calls by the time it ends. *)
C4_RetryableStatusUsesAllAttempts ==
    (pc = "done" /\ hist.sameStatus \in RetryableStatuses) =>
        fetchCalls = DefaultMaxRetries + 1

(* C5 as stated: when every attempt received the same HTTP status out of
   400, 401, 403, 404, whatever the response body, the operation has made
   exactly one transport call and no backoff sleep by the time it ends. *)
C5_NonRetryableStatusOneAttempt ==
    (pc = "done" /\ hist.sameStatus \in NonRetryableStatuses) =>
        (fetchCalls = 1 /\ sleeps = 0)

(* C6: when executeWithRetry throws after maxRetries + 1 attempts, the error it
   throws is the error the last attempt threw, unchanged: same class, same
   message, created by attempt number maxRetries. *)
C6_RethrowsLastError ==
    (hist.retryThrew # NoError /\ fetchCalls = DefaultMaxRetries + 1) =>
        /\ hist.retryThrew = hist.attemptError
        /\ hist.retryThrew.origin = DefaultMaxRetries

\* sendMessage after four network failures
C6_Witness ==
    /\ op = "sendMessage"
    /\ outcome = "threw"
    /\ fetchCalls = DefaultMaxRetries + 1
    /\ sleeps = DefaultMaxRetries
    /\ result.error.name = "TypeError"

(* C7 as stated: failures of the retryable kinds (network failure, 429, 5xx)
   are not surfaced while attempts remain, so that a later successful attempt
   can give the result: when executeWithRetry throws and every failed attempt
   was of a retryable kind, maxRetries + 1 transport calls were made; and a
   call that returns a completion made one more transport call than sleeps. *)
C7_RetryableFailuresNotSurfaced ==
    /\ (hist.retryThrew # NoError /\ hist.retryableOnly) =>
           fetchCalls = DefaultMaxRetries + 1
    /\ (pc = "done" /\ result.kind = "content") => fetchCalls = sleeps + 1

(* C8 as stated: once the cancellation token or the timeout timer has fired
   while an attempt awaits its response, during a backoff sleep or mid-stream,
   no further transport call is started for the exchange. *)
C8_NoFetchAfterCancel == ~hist.lateFetch

(* C9 as stated: if cancellation fires after the stream was opened, no chunk
   event is emitted after that moment and the exchange ends with exactly one
   terminal event of kind abort. *)
C9_NoChunkAfterCancel ==
    hist.firedAt \in StreamPcs =>
        /\ ~hist.lateChunk
        /\ pc = "done" => Last(events).errType = "abort"

(* C10 as stated: when only the timeout timer elapsed (the cancellation token
   never fired), the terminal error of the exchange has kind timeout and is
   recoverable. *)
C10_TimeoutKind ==
    (op \in EventOps /\ pc = "done" /\ hist.timerFired /\ ~extAborted) =>
        (Last(events).errType = "timeout" /\ Last(events).recoverable)


-----------------------------------------------------------------------------
(* Validation before any transport call *)

\* the first check a configuration fails, in the order endpoint non-empty, app id
\* non-empty, credential non-empty, endpoint a URL with scheme http or https
FirstFailingCheck(c) ==
    IF c.baseUrl = "" THEN "endpoint"
    ELSE IF c.appId = "" THEN "appId"
    ELSE IF c.apiKey = "" THEN "credential"
    ELSE IF c.baseUrl \notin {"https://fastgpt.io", "http://localhost:3000/"} THEN "url"
    ELSE "none"

\* the check a validation message speaks of
CheckOf(message) ==
    CASE message = <<"Base", "URL", "is", "required">> -> "endpoint"
      [] message = <<"App", "ID", "is", "required">> -> "appId"
      [] message = <<"API", "Key", "is", "required">> -> "credential"
      [] message \in { <<"Invalid", "Base", "URL", "format">>,
                       <<"Base", "URL", "must", "use", "HTTP", "or", "HTTPS", "protocol">> }
           -> "url"
      [] OTHER -> "none"

\* the message of the error a finished call reported to its caller
ReportedMessage ==
    IF op \in EventOps
    THEN (IF events # <<>> /\ Last(events).type = "error" THEN Last(events).message ELSE <<>>)
    ELSE IF op = "testConnection"
    THEN (IF result.success THEN <<>> ELSE result.message)
    ELSE result.error.message

(* C11: for every public operation, a configuration that fails validation
   leads to no transport call at all, and the validation error the finished
   call reports is that of the first failing check in the order endpoint
   non-empty, app id non-empty, credential non-empty, endpoint a URL with
   scheme http or https. *)
C11_ValidationFirst ==
    FirstFailingCheck(config) # "none" =>
        /\ fetchCalls = 0
        /\ pc \in {"idle", "done"}
        /\ pc = "done" => CheckOf(ReportedMessage) = FirstFailingCheck(config)

\* a unary call whose configuration lacks both the app id and the credential has
\* ended with the app id error, without a transport call
C11_Witness ==
    /\ op = "sendMessage"
    /\ config.baseUrl = "https://fastgpt.io" /\ config.appId = "" /\ config.apiKey = ""
    /\ pc = "done"
    /\ outcome = "threw"
    /\ result.error.message = <<"App", "ID", "is", "required">>
    /\ fetchCalls = 0

(* C12: when validation fails in sendMessageStreamWithEvents or
   sendMessageWithHistoryStreamWithEvents, the consumer receives exactly one
   event: an error event, not recoverable, carrying the validation message;
   no start event and no chunk event is emitted. *)
C12_ValidationErrorEventOnly ==
    (op \in EventOps /\ FirstFailingCheck(config) # "none") =>
        \/ pc = "idle" /\ events = <<>>
        \/ /\ pc = "done"
           /\ Len(events) = 1
           /\ events[1].type = "error"
           /\ ~events[1].recoverable
           /\ CheckOf(events[1].message) = FirstFailingCheck(config)
           /\ \A i \in 1..Len(events) : events[i].type \notin {"start", "chunk"}

\* the history-carrying event operation, configured with an ftp endpoint, has ended
\* with the protocol error as its only event
C12_Witness ==
    /\ op = "sendMessageWithHistoryStreamWithEvents"
    /\ config = [baseUrl |-> "ftp://fastgpt.io", appId |-> "app", apiKey |-> "key"]
    /\ pc = "done"
    /\ Len(events) = 1
    /\ events[1].message = <<"Base", "URL", "must", "use", "HTTP", "or", "HTTPS", "protocol">>

-----------------------------------------------------------------------------
(* Decoding *)

IsChunk(e) == e.type = "chunk"

\* the content deltas the chunk events have carried so far, in order
ChunkData ==
    LET cs == SelectSeq(events, IsChunk)
    IN [i \in 1..Len(cs) |-> cs[i].data]

IsPrefix(a, b) == Len(a) <= Len(b) /\ SubSeq(b, 1, Len(a)) = a

\* what processEnhancedStreamResponse yields when the whole body arrives in one read:
\* every line but the last goes through the loop, the last through the final block
OneReadDeltas(body) ==
    LET ls == SplitLF(DecodeFrom(<<>>, body).text)
    IN FrameContents(SubSeq(ls, 1, Len(ls) - 1)) \o EnhancedFinal(ls[Len(ls)])

(* C13: processEnhancedStreamResponse yields the same ordered content deltas
   whether the body arrives in one read or cut at arbitrary positions (inside
   a line, inside the 'data: ' prefix, between the two newlines that end a
   frame, between the bytes of a multi-byte character): what has been emitted
   is always a prefix of the one-read deltas, and all of them once the stream
   has ended normally. *)
C13_SplitInvariance ==
    op \in EventOps =>
        /\ IsPrefix(ChunkData, OneReadDeltas(hist.body))
        /\ (events # <<>> /\ Last(events).type = "complete") =>
               ChunkData = OneReadDeltas(hist.body)

\* a body whose second frame carries a two-byte character was received in reads one
\* of which ended between the two bytes; the exchange completed with both deltas
C13_Witness ==
    /\ op \in EventOps
    /\ pc = "done"
    /\ hist.splitChar
    /\ Last(events).type = "complete"
    /\ ChunkData = <<"A", "U">>

\* the body holds a data frame whose payload is not JSON
HasMalformedFrame(body) ==
    LET ls == SplitLF(DecodeFrom(<<>>, body).text)
    IN \E i \in 1..Len(ls) :
          LET t == Trim(ls[i])
          IN /\ StartsWithData(t)
             /\ t # DoneLine
             /\ ParseJson(SubSeq(t, 3, Len(t))).kind = "invalid"

\* the content deltas the consumer of a streaming operation has received
Delivered == IF op \in EventOps THEN ChunkData ELSE deltas

\* the exchange ended because a read of the body was rejected by the transport
ReadFailed ==
    \/ /\ op \in EventOps
       /\ events # <<>>
       /\ Last(events).message = <<"Network", "connection", "lost", "during", "streaming">>
    \/ op \in PlainStreamOps /\ outcome = "threw" /\ result.error.name = "TypeError"

\* the exchange ended the way an exchange without failure ends
EndedNormally ==
    IF op \in EventOps THEN events # <<>> /\ Last(events).type = "complete"
    ELSE outcome = "returned"

(* C14: in both decoders (sendMessageStream and sendMessageStreamWithEvents) a
   data frame whose payload is not valid JSON does not end the stream and
   yields neither a delta nor an error: when nothing else disturbs the
   exchange (no cancellation, no timeout, no rejected read) it ends normally
   and the consumer has received the deltas of every valid frame before and
   after the malformed one, in wire order, and nothing else. *)
C14_MalformedFrameSkipped ==
    ( /\ op \in EventOps \cup PlainStreamOps
      /\ HasMalformedFrame(hist.body)
      /\ pc = "done"
      /\ hist.firedAt = "" /\ ~hist.timerFired /\ ~ReadFailed ) =>
        /\ EndedNormally
        /\ Delivered = BodyDeltas(hist.body)

-----------------------------------------------------------------------------
(* Backoff delays *)

DelayComputed == unit.fn = "calculateRetryDelay" /\ unit.applied

\* base * multiplier^k for the call at hand
Exponential ==
    unit.arg.options.baseDelay * Pow(unit.arg.options.backoffMultiplier, unit.arg.attempt)

(* C15: for every retry policy, attempt index and error kind, the delay
   calculateRetryDelay computes, jitter included, never exceeds the policy's
   maxDelay. *)
C15_DelayWithinMaxDelay ==
    DelayComputed => unit.out <= unit.arg.options.maxDelay

(* C16, as claimed: for an error that is not a rate limit, the delay d after
   attempt k satisfies base * mult^k <= d <= 1.1 * base * mult^k, for every k
   and every policy, also when base * mult^k is greater than maxDelay. *)
C16_DelayWithinTenthOfExponential ==
    (DelayComputed /\ unit.arg.cause.status # 429) =>
        /\ Exponential <= unit.out
        /\ 10 * unit.out <= 11 * Exponential

(* C16, amended: for an error that is not a rate limit, the delay d after
   attempt k satisfies c <= d <= 1.1 * c where c = min(base * mult^k, maxDelay):
   the exponential term is capped by maxDelay before the jitter is added. *)
C16_DelayWithinTenthOfCapped ==
    (DelayComputed /\ unit.arg.cause.status # 429) =>
        LET c == IF Exponential <= unit.arg.options.maxDelay THEN Exponential
                 ELSE unit.arg.options.maxDelay
        IN /\ c <= unit.out
           /\ 10 * unit.out <= 11 * c

\* a delay was computed for a failed fetch at an attempt whose exponential term is
\* above maxDelay: it lies between maxDelay and 1.1 * maxDelay, jitter included
C16_Witness ==
    /\ DelayComputed
    /\ unit.arg.cause = NoResponse
    /\ Exponential > unit.arg.options.maxDelay
    /\ unit.out > unit.arg.options.maxDelay
    /\ 10 * unit.out <= 11 * unit.arg.options.maxDelay

(* C17: when the failed attempt was a 429 response carrying a Retry-After
   header of s seconds, the delay before the next attempt is the hinted value,
   s seconds, in place of the computed backoff. *)
C17_RetryAfterHonoured ==
    (DelayComputed /\ unit.arg.cause.status = 429 /\ unit.arg.cause.retryAfter >= 0) =>
        unit.out = unit.arg.cause.retryAfter * 1000

-----------------------------------------------------------------------------
(* Classification of error responses *)

ErrorParsed == unit.fn = "parseErrorResponse" /\ unit.applied

(* C18: parseErrorResponse maps every HTTP error status to the taxonomy: 401
   and 403 give kind authentication, not retryable; 400 and 404 give kind
   validation, not retryable; 408, 429, 500, 502, 503 and 504 give kind server,
   retryable; every other status gives kind unknown, retryable exactly when
   the status is 500 or above. *)
C18_StatusTaxonomy ==
    ErrorParsed =>
        LET st == unit.arg.response.status
            e == unit.out
        IN /\ st \in {401, 403} => (e.type = "authentication" /\ ~e.retryable)
           /\ st \in {400, 404} => (e.type = "validation" /\ ~e.retryable)
           /\ st \in {408, 429, 500, 502, 503, 504} => (e.type = "server" /\ e.retryable)
           /\ st \notin {400, 401, 403, 404, 408, 429, 500, 502, 503, 504} =>
                  (e.type = "unknown" /\ (e.retryable <=> st >= 500))

(* C19: for every HTTP error status, when the response body cannot be parsed
   the retryability decided is the one decided for that status when the body
   parses (408, 429 and 500-504 stay retryable and the executor retries them;
   400, 401, 403 and 404 stay non-retryable), and the message falls back to
   'HTTP <status>: <statusText>'. *)
C19_UnparseableBodySameRetryability ==
    (ErrorParsed /\ ~unit.arg.response.body.json) =>
        LET r == unit.arg.response
            e == unit.out
        IN /\ \A b \in ErrorBodies :
                  b.json => e.retryable = parseErrorResponse([r EXCEPT !.body = b]).retryable
           /\ e.retryable <=> isRetryableError(ThrownFor(r, 0))
           /\ e.message = HttpLine(r.status)

-----------------------------------------------------------------------------
(* The request URL *)

\* the path of a URL: what follows its host
PathOf(url) ==
    LET t == SubSeq(url, 4, Len(url))
    IN IF \E i \in 1..Len(t) : t[i] = "/"
       THEN SubSeq(t, CHOOSE i \in 1..Len(t) : t[i] = "/" /\ \A j \in 1..(i - 1) : t[j] # "/",
                   Len(t))
       ELSE <<>>

\* the path has a segment that is exactly 'api'
HasApiSegment(url) ==
    LET q == PathOf(url)
    IN \E i \in 1..(Len(q) - 1) :
          q[i] = "/" /\ q[i + 1] = "api" /\ (i + 1 = Len(q) \/ q[i + 2] = "/")

(* C20: buildApiUrl removes exactly one trailing slash of the configured
   endpoint and inserts '/api' before the request path if and only if the
   endpoint has no path segment 'api': 'https://fastgpt.io',
   'https://fastgpt.io/' and 'https://fastgpt.io/api' all give
   'https://fastgpt.io/api/v1/chat/completions', and an endpoint that only
   contains the characters '/api' inside a longer segment still gets '/api'
   inserted. *)
C20_ApiSegmentInserted ==
    (unit.fn = "buildApiUrl" /\ unit.applied) =>
        LET u == unit.arg.baseUrl
            base == IF u[Len(u)] = "/" THEN SubSeq(u, 1, Len(u) - 1) ELSE u
        IN unit.out = base \o (IF HasApiSegment(u) THEN <<>> ELSE <<"/", "api">>)
                           \o unit.arg.endpoint

-----------------------------------------------------------------------------
(* The stream reader *)

\* the call is over: it ran to its end or the consumer closed the generator
Ended == pc \in {"done", "closed"}

(* C21: in every execution of a streaming operation in which the stream reader
   was acquired, the reader has been released exactly once when the operation
   ends, on every exit path (natural end of stream, an exception while
   reading, cancellation, the consumer stopping early); it is never released
   twice and never released without having been acquired. *)
C21_ReaderReleasedOnce ==
    /\ readerAcq <= 1
    /\ readerRel <= readerAcq
    /\ Ended => readerRel = readerAcq
    /\ ~Ended => readerRel = 0

\* the consumer stopped after the first of two chunks: the reader acquired for the
\* stream has been released once
C21_Witness ==
    /\ op \in EventOps
    /\ pc = "closed"
    /\ Len(events) = 2
    /\ rest # <<>>
    /\ readerAcq = 1
    /\ readerRel = 1

-----------------------------------------------------------------------------
(* Setup state and views *)

\* the view the setup flags call for
ViewForFlags(onboardingComplete, configurationComplete) ==
    IF ~onboardingComplete THEN "onboarding"
    ELSE IF ~configurationComplete THEN "configuration"
    ELSE "chat"

(* C22: the view ChromeStorageManager.getExtensionState reports is a function
   of the stored setup flags only: onboarding when onboardingComplete is false
   (whatever configurationComplete is), configuration when onboardingComplete
   is true and configurationComplete is false, chat when both are true; when
   no setup state is stored the flags default to false/false, giving
   onboarding. *)
C22_ViewFromSetupFlags ==
    \A c \in DOMAIN calls :
        (calls[c].fn = "getExtensionState" /\ calls[c].pc = "done" /\ calls[c].result.success) =>
            LET read == calls[c].setup
                data == calls[c].result.data
            IN /\ data.currentView =
                      ViewForFlags(read.onboardingComplete, read.configurationComplete)
               /\ data.setupComplete = read.onboardingComplete
               /\ data.configurationComplete = read.configurationComplete
               /\ ~read.stored =>
                      /\ ~data.setupComplete /\ ~data.configurationComplete
                      /\ data.currentView = "onboarding"

\* getExtensionState read onboardingComplete = false, configurationComplete = true
\* and reported onboarding
C22_Witness ==
    \E c \in DOMAIN calls :
        /\ calls[c].fn = "getExtensionState"
        /\ calls[c].pc = "done"
        /\ calls[c].result.success
        /\ calls[c].setup = SetupState(TRUE, FALSE, TRUE)
        /\ calls[c].result.data.currentView = "onboarding"

\* the guard of a navigation to a view, on the state the manager holds
TransitionGuard(cs, targetView) ==
    \/ targetView = "onboarding"
    \/ targetView = "configuration" /\ cs.loaded /\ cs.setupComplete
    \/ /\ targetView \in {"chat", "settings"}
       /\ cs.loaded /\ cs.setupComplete /\ cs.configurationComplete

(* C23: in ExtensionStateManager, setCurrentView(target) and
   forceTransitionTo(target) succeed and set the current view to target
   exactly when the guard holds (onboarding: always; configuration:
   onboarding complete; chat and settings: onboarding and configuration
   complete); otherwise they return success = false with an 'Invalid state
   transition' error, leave the current view unchanged and notify no
   listener. *)
C23_GuardedTransitions ==
    [][ \A c \in Callers, fn \in NavigationOps, targetView \in Views :
           SetCurrentView(c, fn, targetView) =>
               IF TransitionGuard(manager.currentState, targetView)
               THEN /\ calls'[c].result.success
                    /\ getCurrentView(manager'.currentState) = targetView
               ELSE /\ ~calls'[c].result.success
                    /\ calls'[c].result.error = "Invalid state transition"
                    /\ getCurrentView(manager'.currentState) = getCurrentView(manager.currentState)
                    /\ manager'.notified = manager.notified ]_vars

\* the manager has loaded a state with onboarding complete and configuration not:
\* a navigation to settings was refused, the view is still configuration and the
\* only notification is that of the load
C23_Witness ==
    \E c \in DOMAIN calls :
        /\ calls[c].fn = "setCurrentView"
        /\ calls[c].target = "settings"
        /\ calls[c].pc = "done"
        /\ ~calls[c].result.success
        /\ calls[c].result.error = "Invalid state transition"
        /\ manager.currentState.loaded
        /\ manager.currentState.setupComplete
        /\ manager.currentState.currentView = "configuration"
        /\ manager.notified = 1

(* C26: if completeOnboarding and completeConfiguration of
   ExtensionStateManager run concurrently, interleaved at their storage
   awaits, and both return success, the stored setup state afterwards has
   onboardingComplete = true and configurationComplete = true. *)
C26_NoLostSetupFlag ==
    \A c, d \in DOMAIN calls :
        ( /\ calls[c].fn = "completeOnboarding" /\ calls[c].pc = "done"
          /\ calls[c].result.success
          /\ calls[d].fn = "completeConfiguration" /\ calls[d].pc = "done"
          /\ calls[d].result.success ) =>
            /\ storage.setupState.stored
            /\ storage.setupState.onboardingComplete
            /\ storage.setupState.configurationComplete

-----------------------------------------------------------------------------
(* Retry decisions *)

(* C24: executeWithRetry retries a failed attempt, attempts remaining, if and
   only if the classifier marked the failure retryable: for every HTTP status
   and every response body, isRetryableError on the error thrown for the
   response agrees with the retryable flag parseErrorResponse produced for
   it, statuses outside the enumerated list (such as 501) included. *)
C24_RetryDecisionFollowsFlag ==
    ErrorParsed =>
        (isRetryableError(MkError("Error", unit.out.message, 0)) <=> unit.out.retryable)

RECURSIVE IsSubsequence(_, _)
IsSubsequence(a, b) ==
    IF a = <<>> THEN TRUE
    ELSE IF b = <<>> THEN FALSE
    ELSE IF Head(a) = Head(b) THEN IsSubsequence(Tail(a), Tail(b))
    ELSE IsSubsequence(a, Tail(b))

(* C25: the retry executor wraps only the opening of the stream: once the
   stream has been opened no further transport call and no backoff sleep is
   made, whatever fails afterwards (a rejected read, a lost connection, a
   cancellation); a chunk is only ever delivered from the one opened stream,
   so no transport call follows the first chunk event and the deltas
   delivered are deltas of that one body, each at most once, in wire order. *)
C25_NoRetryAfterStreamOpened ==
    [][ /\ readerAcq >= 1 =>
              (fetchCalls' = fetchCalls /\ sleeps' = sleeps /\ readerAcq' = readerAcq)
        /\ Delivered' # <<>> => readerAcq' = 1
        /\ IsSubsequence(Delivered', BodyDeltas(hist'.body)) ]_vars

\* the first attempt failed and was retried; the second opened the stream, delivered
\* one chunk, and then a read was rejected: the exchange ended with two transport calls
C25_Witness ==
    /\ op \in EventOps
    /\ pc = "done"
    /\ fetchCalls = 2
    /\ sleeps = 1
    /\ readerAcq = 1
    /\ ChunkData = <<"A">>
    /\ ReadFailed

-----------------------------------------------------------------------------
(* Classification of streaming errors *)

ErrorClassified == unit.fn = "classifyStreamingError" /\ unit.applied

\* the class and recoverability the precedence assigns to an error with these markers
ClassByPrecedence(name, markers) ==
    IF name = "AbortError" \/ "cancel" \in markers THEN <<"abort", TRUE>>
    ELSE IF "deadline" \in markers THEN <<"timeout", TRUE>>
    ELSE IF "transport" \in markers THEN <<"connection", TRUE>>
    ELSE IF "decode" \in markers THEN <<"parsing", FALSE>>
    ELSE IF "auth" \in markers THEN <<"connection", FALSE>>
    ELSE <<"connection", TRUE>>

(* C27: classifyStreamingError applies its tests in a fixed order, so an error
   carrying several markers gets the class of the first test that matches:
   cancellation gives abort (recoverable), then a deadline marker gives
   timeout (recoverable), then a transport marker gives connection
   (recoverable), then a decode marker gives parsing (not recoverable), then
   an authentication marker gives connection (not recoverable), anything
   else connection (recoverable); the catch block emits exactly one error
   event, carrying that class and recoverability. *)
C27_ClassificationPrecedence ==
    ErrorClassified =>
        /\ Len(unit.out) = 1
        /\ unit.out[1].type = "error"
        /\ <<unit.out[1].errType, unit.out[1].recoverable>>
               = ClassByPrecedence(unit.arg.error.name, unit.arg.markers)
        /\ unit.out[1].currentChunk = unit.arg.chunkCount

\* an error whose message carries every marker at once has been classified as abort
C27_Witness ==
    /\ ErrorClassified
    /\ unit.arg.markers = Markers
    /\ unit.arg.error.name = "Error"
    /\ unit.out[1].errType = "abort"

-----------------------------------------------------------------------------
(* Plain decoder *)

\* what processStreamResponse yields for the lines ls, up to a line at which it throws
RECURSIVE PlainYields(_)
PlainYields(ls) ==
    IF ls = <<>> THEN <<>>
    ELSE LET l == PlainLine(Head(ls))
         IN IF l.act = "throw" THEN <<>>
            ELSE IF l.act = "yield" THEN <<l.content>> \o PlainYields(Tail(ls))
            ELSE PlainYields(Tail(ls))

\* what processStreamResponse yields when the whole body arrives in one read
PlainOneReadDeltas(body) == PlainYields(SplitLF(DecodeFrom(<<>>, body).text))

\* processStreamResponse throws on the body received in one read (an in-band error)
PlainOneReadThrows(body) ==
    LET ls == SplitLF(DecodeFrom(<<>>, body).text)
    IN \E i \in 1..Len(ls) : PlainLine(ls[i]).act = "throw"

(* C28: processStreamResponse, the decoder behind sendMessageStream, holds the
   incomplete last line of a read back and joins it with the next read, so the
   deltas it yields do not depend on where the reads cut the body: what has
   been yielded is always a prefix of the deltas of the body received in one
   read, and all of them once the stream has ended normally. *)
C28_PlainDecoderSplitInvariance ==
    op \in PlainStreamOps =>
        /\ IsPrefix(deltas, PlainOneReadDeltas(hist.body))
        /\ (pc = "done" /\ outcome = "returned") =>
               /\ deltas = PlainOneReadDeltas(hist.body)
               /\ ~PlainOneReadThrows(hist.body)

-----------------------------------------------------------------------------
(* Timeout while the body is being received *)

\* Timers that are armed elapse, an aborted controller rejects the pending fetch or
\* read, the end of a body that was sent in full is delivered, and the consumer's
\* for await loop keeps asking for the next event; the server is under no obligation
\* to send anything.
StallSpec ==
    /\ Spec
    /\ WF_vars(TimeoutFire)
    /\ WF_vars(FetchAbort)
    /\ WF_vars(ReadAbort)
    /\ WF_vars(ReadDone)
    /\ WF_vars(ResumeAfterChunk)
    /\ WF_vars(ResumeAfterFinal)

(* C29: when a timeout is configured and the headers have arrived, a stream
   that stalls does not keep the exchange waiting: the timeout elapses while
   the decoder awaits a read, the pending request is aborted and the exchange
   ends (with one terminal abort or timeout event). *)
C29_StalledStreamTimesOut ==
    (op \in EventOps /\ options.timeout /\ pc = "awaitRead") ~> Ended

-----------------------------------------------------------------------------
(* Concurrent exchanges *)

\* the events of an exchange with this script when it runs alone and is not cancelled
SoloEvents(script) ==
    IF script.fails > DefaultMaxRetries
    THEN <<StartEvent,
           ErrorEvent(StreamingError("connection",
                          <<"Network", "connection", "lost", "during", "streaming">>, TRUE), 0)>>
    ELSE IF script.final = "denied"
    THEN <<StartEvent,
           ErrorEvent(StreamingError("connection",
                          <<"Authentication", "failed", ":", "Invalid", "API", "key">>, FALSE),
                      0)>>
    ELSE <<StartEvent>> \o [k \in 1..Len(PairBody) |-> ChunkEvent(PairBody[k], k)]
             \o <<CompleteEvent(Len(PairBody))>>

\* the fetch calls of such an exchange
SoloAttempts(script) == Min(script.fails, DefaultMaxRetries) + 1

(* C30: two exchanges run side by side on one client, interleaved at every
   suspension point, do not interfere: each makes at most maxRetries + 1
   attempts, counted on its own; an exchange whose own signal has not fired is
   never aborted, emits a prefix of the events (chunk indices included) it
   emits when run alone, and ends with exactly those events and that number
   of attempts, whatever the other does, its cancellation included; the
   client's configuration is never changed. *)
C30_ExchangesIndependent ==
    \A i \in DOMAIN exchanges :
        LET x == exchanges[i]
        IN /\ x.fetchCalls <= DefaultMaxRetries + 1
           /\ x.pc \notin {"idle", "started"} => x.fetchCalls = x.attempt + 1
           /\ config = [baseUrl |-> "https://fastgpt.io", appId |-> "app", apiKey |-> "key"]
           /\ ~x.extAborted =>
                 /\ x.ctrl # "aborted"
                 /\ IsPrefix(x.events, SoloEvents(x.script))
                 /\ x.pc = "done" =>
                       (x.events = SoloEvents(x.script)
                            /\ x.fetchCalls = SoloAttempts(x.script))

\* exchange 1 was cancelled while its body was being received and ended with an abort
\* error; exchange 2, retried once, delivered both chunks and completed
C30_Witness ==
    /\ exchanges # <<>>
    /\ exchanges[1].pc = "done"
    /\ exchanges[1].extAborted
    /\ exchanges[1].chunkCount = 1
    /\ Last(exchanges[1].events).errType = "abort"
    /\ exchanges[2].pc = "done"
    /\ ~exchanges[2].extAborted
    /\ exchanges[2].fetchCalls = 2
    /\ Last(exchanges[2].events) = CompleteEvent(2)

-----------------------------------------------------------------------------
(* Rate-limit spacing *)

\* a 429 response with a JSON body and no Retry-After header
RateLimited == [status |-> 429, body |-> [json |-> TRUE, message |-> <<>>], retryAfter |-> -1]

(* C32: for the same retry policy and the same attempt index, the delay
   calculateRetryDelay computes for a rate-limit (429) error without a
   Retry-After hint is never smaller than the delay it computes for a
   retryable error that is not a rate limit, whatever the jitter, also when
   the exponential term is capped at maxDelay. *)
C32_RateLimitDelayNotSmaller ==
    ( /\ DelayComputed
      /\ ~Includes(unit.arg.error.message, <<"Rate", "limit", "exceeded">>) ) =>
        \A random \in Randoms :
            calculateRetryDelay(unit.arg.attempt, unit.arg.options,
                                ThrownFor(RateLimited, unit.arg.attempt), random) >= unit.out

-----------------------------------------------------------------------------
(* End of the byte source *)

\* the last line of the body, the one no newline follows
LastLine(body) ==
    LET ls == SplitLF(DecodeFrom(<<>>, body).text)
    IN ls[Len(ls)]

(* C33: when the byte source ends, processEnhancedStreamResponse treats what
   is left in its buffer by the rules of any other line: a valid data frame
   with a non-empty content delta becomes one more chunk event, followed by
   complete when the consumer resumes; an empty line, the '[DONE]' sentinel
   and a malformed frame are skipped, and the exchange completes at once. *)
C33_FinalLineSameRules ==
    [][ /\ ReadDone =>
              LET f == EnhancedLine(buffer)
              IN IF f # <<>>
                 THEN /\ events' = Append(events, ChunkEvent(f[1], chunkCount + 1))
                      /\ pc' = "yieldedFinal"
                 ELSE /\ events' = Append(events, CompleteEvent(chunkCount))
                      /\ pc' = "done"
        /\ ResumeAfterFinal =>
              (events' = Append(events, CompleteEvent(chunkCount)) /\ pc' = "done") ]_vars

\* a body whose last frame has no newline after it was consumed to the end: the
\* frame's delta is the last chunk, and complete follows it
C33_Witness ==
    /\ op \in EventOps
    /\ pc = "done"
    /\ EnhancedLine(LastLine(hist.body)) = <<"B">>
    /\ Len(events) = 4
    /\ events[3] = ChunkEvent("B", 2)
    /\ events[4] = CompleteEvent(2)

\* a body ending in the sentinel without a newline, or in a malformed frame, was
\* consumed to the end: the exchange completed without any chunk
C33_SkippedWitness ==
    /\ op \in EventOps
    /\ pc = "done"
    /\ LastLine(hist.body) \in {<<"da", "ta", "DONE">>, <<"da", "ta", "x">>}
    /\ events = <<StartEvent, CompleteEvent(0)>>

-----------------------------------------------------------------------------
(* Backoff sleeps *)

(* C34: executeWithRetry sleeps exactly once between two consecutive attempts
   and never after the last one: while it sleeps the sleeps equal the attempts
   made, at every other moment (an attempt under way, the stream open, the
   call ended by success, by a non-retryable failure or by exhaustion) they
   are one fewer; the attempts never exceed maxRetries + 1. *)
C34_OneSleepBetweenAttempts ==
    /\ fetchCalls <= DefaultMaxRetries + 1
    /\ sleeps = IF pc = "sleep" THEN fetchCalls
                ELSE IF fetchCalls = 0 THEN 0
                ELSE fetchCalls - 1

\* every attempt failed with a retryable error: four attempts, three sleeps, and the
\* call has ended
C34_Witness ==
    /\ pc = "done"
    /\ fetchCalls = DefaultMaxRetries + 1
    /\ sleeps = DefaultMaxRetries
    /\ isRetryableError(hist.retryThrew)

-----------------------------------------------------------------------------
(* In-band API errors *)

\* the plain decoder threw the error it builds for an in-band API error object
ThrewApiError ==
    /\ outcome = "threw"
    /\ result.error.message = <<"FastGPT", "API", "error">>

(* C37: in sendMessageStream and sendMessageWithHistoryStream a well-formed
   data frame carrying code, statusText and message ends the stream with a
   thrown error: when the body holds such a frame and no read is rejected,
   the call ends by throwing that error, the consumer has received exactly
   the deltas of the frames before it and none of a frame after it, and the
   reader has been released. *)
C37_InBandErrorEndsStream ==
    ( /\ op \in PlainStreamOps
      /\ pc = "done"
      /\ PlainOneReadThrows(hist.body)
      /\ ~ReadFailed ) =>
        /\ ThrewApiError
        /\ deltas = PlainOneReadDeltas(hist.body)
        /\ readerAcq = 1 /\ readerRel = 1

-----------------------------------------------------------------------------
(* Stored configuration *)

\* no operation of the state manager is under way
NoCallUnderWay == \A c \in DOMAIN calls : calls[c].pc \in {"idle", "done"}

(* C31: in every storage state the operations of ExtensionStateManager leave
   behind (completeOnboarding, completeConfiguration, resetOnboarding,
   resetConfiguration, resetAllState, any storage call of which may fail),
   configurationComplete = true implies that a fastgptConfig is stored; in
   particular a resetConfiguration that returns failure has not removed the
   configuration while leaving configurationComplete true. *)
C31_CompleteImpliesConfigStored ==
    (NoCallUnderWay /\ getSetupState(storage).configurationComplete) => storage.fastgptConfig

-----------------------------------------------------------------------------
(* Chat sessions *)

(* C35: setChatSession(id, s) changes only the stored entry for id: the write
   that ends the call leaves every other stored chat session as it was, also
   when the read of the existing sessions reported failure, and also when
   another setChatSession call for a different id wrote between this call's
   read and its write. *)
C35_OnlyOwnSessionChanged ==
    [][ \A c \in DOMAIN sessionCalls :
            SetStorageDataStep(c) =>
                \A id \in SessionIds \ {sessionCalls[c].sessionId} :
                    chatSessions'[id] = chatSessions[id] ]_vars

-----------------------------------------------------------------------------
(* One stream per ChatComponent *)

\* the invocations of handleSendMessage whose stream is open
InFlight ==
    IF chatComponent = <<>> THEN {}
    ELSE {h \in Invocations : chatComponent.sends[h].pc = "streaming"}

\* no invocation is under way, and one of them has streamed
StreamingOver ==
    /\ chatComponent # <<>>
    /\ \A h \in Invocations : chatComponent.sends[h].pc \in {"idle", "done"}
    /\ \E h \in Invocations : chatComponent.sends[h].streamed

(* C36: at most one streaming exchange is in flight per ChatComponent: a
   handleSendMessage invoked while an earlier one has not finished, also
   while the earlier one still awaits the persistence of its messages and has
   not set isStreaming yet, starts no second stream; and isStreaming is false
   again once streaming has ended, on every path. *)
C36_SingleStreamInFlight ==
    /\ Cardinality(InFlight) <= 1
    /\ StreamingOver => ~chatComponent.isStreaming
====
